---- MODULE Spec2Model ----
(***************************************************************************)
(* sputnikvm-dev: the chain store (src/miner/state.rs, MinerState), the    *)
(* block producer (src/miner/mod.rs, mine_loop / to_valid / transit /      *)
(* next) and the submission and read handlers of the JSON-RPC service      *)
(* (src/rpc/serves.rs, src/rpc/util.rs).                                   *)
(*                                                                         *)
(* Hashes.  Keccak-256 of an RLP encoding is modelled by the encoding      *)
(* itself, written as a tuple of the encoded fields: two values have the   *)
(* same hash exactly when they have the same encoding.  A trie root is     *)
(* modelled by the map the trie holds.                                     *)
(***************************************************************************)
EXTENDS Integers, Sequences, FiniteSets, TLC

\* ------------------------------------------------------------------ bounds
\* Mining rounds are started only while the height is below MaxHeight.
MaxHeight == 2
\* Submissions are accepted only while fewer than MaxSubmit were accepted.
MaxSubmit == 3

\* ------------------------------------------------------- configuration
\* The genesis balance given to every genesis account (--balance).
Balance == 1
\* Gas limit put into a transaction whose RPC request names no gas.
DefaultGas == 90000
\* Gas the VM reports for a plain value transfer.
TransferGas == 21000

\* Option<T>: None is the empty sequence, Some(v) the sequence of v alone.
None == <<>>
Some(v) == <<v>>
\* The outcome of a call: an error name ("Ok" for none) and the value.
Reply(err, value) == [err |-> err, value |-> value]

\* Addresses.  GenesisKeys are the addresses of the secret keys the node
\* generates at start; the third address has no key in the node and no
\* genesis balance.
GenesisKeys == <<1, 2>>
Address == {1, 2, 3}

\* The hex strings RPC requests are drawn from, and what they decode to.
\* "zz" is a string that is no hex number.
HexAddress == ("0x1" :> 1) @@ ("0x2" :> 2) @@ ("0x3" :> 3)
HexU256 == ("0x0" :> 0) @@ ("0x1" :> 1) @@ ("0x2" :> 2)

\* Address::from_str / U256::from_str: the decoded value, or HexError.
FromStr(table, s) ==
    IF s \in DOMAIN table THEN [err |-> "Ok", val |-> table[s]]
    ELSE [err |-> "HexError", val |-> 0]

\* The requests eth_sendTransaction is called with: gas, gasPrice and data
\* are left out, nonce may be.  Two requests name a sender the node cannot
\* sign for, one request asks for more than the sender owns.
RPCTransactions ==
    [from : {"0x1", "0x2"}, to : {"0x2", "0x3"},
     value : {"0x1"}, nonce : {None, Some("0x0")}]
    \cup [from : {"0x3", "zz"}, to : {"0x2"}, value : {"0x1"}, nonce : {None}]
    \cup {[from |-> "0x1", to |-> "0x3", value |-> "0x2", nonce |-> None]}

\* The byte strings eth_sendRawTransaction is called with: the RLP of a
\* transaction signed with a genesis key or with a key the node does not
\* hold, or bytes that are no RLP of a transaction.
RawTransactions ==
    [rlp : {TRUE}, nonce : {0}, gas_price : {0}, gas_limit : {DefaultGas},
     to : {3}, value : {1}, input : {""}, caller : {1, 3}]
    \cup [rlp : {FALSE}, nonce : {0}, gas_price : {0}, gas_limit : {0},
          to : {2}, value : {0}, input : {""}, caller : {1}]

\* H256::default(), the parent hash of the genesis block.
ZeroHash == <<>>

Range(s) == {s[i] : i \in 1..Len(s)}

\* HashMap::insert, Trie::insert: the entry for key k becomes v, replacing an
\* older one.
Insert(m, k, v) == [x \in DOMAIN m \cup {k} |-> IF x = k THEN v ELSE m[x]]

\* TransactionAction: Call(address) is written as the address, Create as 0,
\* which is the address of no account here.
CreateAction == 0

\* The address of the contract a creation deploys.  Creations are sent by
\* the first genesis account with nonce 0 only, and the address derived from
\* that sender and nonce is the third one.
ContractAddress == 3

\* Transaction data and contract code, named by what they do:
\*   ""         no data, no code;
\*   "STORE42"  init code that writes 42 to slot 0 and deploys "INCR";
\*   "INCR"     code that reads slot 0 and writes the value read plus 1 back.
\* Gas the VM reports on top of a transfer's for a creation and for writing
\* a slot.
CreateGas == 32000
StoreGas == 20000

\* ------------------------------------------------------------ world state
\* An account trie: Address -> account, with an absent slot marked by
\* exists = FALSE.
\* A storage trie maps the bytes of a key to the bytes of a value; the empty
\* trie (create_empty) holds nothing.
EmptyStorage == <<>>

Nonexist ==
    [exists |-> FALSE, nonce |-> 0, balance |-> 0, storage |-> EmptyStorage, code |-> ""]
EmptyTrie == [a \in Address |-> Nonexist]

\* An account without storage and code.
Account(nonce, balance) ==
    [exists |-> TRUE, nonce |-> nonce, balance |-> balance, storage |-> EmptyStorage,
     code |-> ""]

\* U256::to_big_endian: the 32 bytes of the number.
to_big_endian(v) == <<"be", v>>
\* rlp::encode of a number.
rlp_encode(v) == <<"rlp", v>>
\* The key a FixedSecureTrie looks an entry up with: Keccak of the 32 bytes.
secure_key(v) == <<"sha3", v>>
\* rlp::decode::<M256>: the number the bytes encode.
rlp_decode(bytes) == IF bytes[1] = "rlp" THEN bytes[2] ELSE 0

\* make_state: every genesis key is funded with the genesis balance.
GenesisTrie ==
    [a \in Address |-> IF a \in Range(GenesisKeys) THEN Account(0, Balance) ELSE Nonexist]

\* Keccak(RLP(transaction)).
TransactionHash(t) ==
    <<t.nonce, t.gas_price, t.gas_limit, t.to, t.value, t.input, t.caller>>

\* header_hash(): Keccak(RLP(header)).
HeaderHash(h) ==
    <<h.parent_hash, h.beneficiary, h.state_root, h.transactions_root, h.receipts_root,
      h.logs_bloom, h.difficulty, h.number, h.gas_used>>

\* ValidTransaction::from_transaction: the pre-execution checks of the VM
\* against the account state the caller commits.
from_transaction(t, trie) ==
    IF trie[t.caller].nonce # t.nonce THEN "InvalidNonce"
    ELSE IF t.gas_limit < TransferGas THEN "InsufficientGasLimit"
    ELSE IF trie[t.caller].balance < t.value + t.gas_price * t.gas_limit
         THEN "InsufficientBalance"
    ELSE "Ok"

\* transit, RequireError::AccountStorage(address, index): what the miner
\* commits to the VM.  The slot is looked up in the account's storage trie
\* under rlp::encode(&index) and the bytes found are RLP-decoded; a slot that
\* is not found is zero.
require_account_storage(trie, address, index) ==
    IF ~trie[address].exists THEN [kind |-> "Nonexist", value |-> 0]
    ELSE LET storage == trie[address].storage
         IN [kind |-> "Storage",
             value |-> IF rlp_encode(index) \in DOMAIN storage
                       THEN rlp_decode(storage[rlp_encode(index)])
                       ELSE 0]

\* vm.real_used_gas().
real_used_gas(t, trie) ==
    IF t.to = CreateAction
    THEN TransferGas + CreateGas + (IF t.input = "STORE42" THEN StoreGas ELSE 0)
    ELSE IF trie[t.to].code = "INCR" THEN TransferGas + StoreGas
    ELSE TransferGas

\* vm.accounts() after the transaction has run to completion: a creation, a
\* call of the contract (whose read of slot 0 is answered by the miner), or
\* a value transfer.
VMAccounts(t, trie) ==
    LET from == [kind |-> "Full", address |-> t.caller,
                 nonce |-> trie[t.caller].nonce + 1,
                 balance |-> trie[t.caller].balance - t.value
                               - t.gas_price * real_used_gas(t, trie),
                 changing_storage |-> <<>>, storage |-> <<>>,
                 code |-> trie[t.caller].code, exists |-> TRUE]
    IN IF t.to = CreateAction
       THEN <<from,
              [kind |-> "Create", address |-> ContractAddress, nonce |-> 0,
               balance |-> trie[ContractAddress].balance + t.value,
               changing_storage |-> <<>>,
               storage |-> IF t.input = "STORE42" THEN (0 :> 42) ELSE <<>>,
               code |-> IF t.input = "STORE42" THEN "INCR" ELSE "",
               exists |-> TRUE]>>
       ELSE LET read == require_account_storage(trie, t.to, 0)
                to == IF trie[t.to].exists
                      THEN [kind |-> "Full", address |-> t.to, nonce |-> trie[t.to].nonce,
                            balance |-> trie[t.to].balance + t.value,
                            changing_storage |->
                               IF trie[t.to].code = "INCR" THEN (0 :> read.value + 1)
                               ELSE <<>>,
                            storage |-> <<>>,
                            code |-> trie[t.to].code, exists |-> TRUE]
                      ELSE [kind |-> "Create", address |-> t.to, nonce |-> 0,
                            balance |-> t.value, changing_storage |-> <<>>,
                            storage |-> <<>>, code |-> "", exists |-> TRUE]
            IN IF t.to = t.caller
               THEN <<[from EXCEPT !.balance = @ + t.value]>>
               ELSE <<from, to>>

\* The storage trie after the slots of `changing` are inserted: key and
\* value are written as their 32 big-endian bytes.
InsertSlots(storage, changing) ==
    [k \in DOMAIN storage \cup {to_big_endian(i) : i \in DOMAIN changing} |->
        IF \E i \in DOMAIN changing : k = to_big_endian(i)
        THEN to_big_endian(changing[CHOOSE i \in DOMAIN changing : k = to_big_endian(i)])
        ELSE storage[k]]

\* transit, vm::Account::IncreaseBalance and DecreaseBalance with the
\* balance kept at zero when more is taken than there is.
balance_change_saturating(trie, c) ==
    IF ~trie[c.address].exists THEN Reply("Panic", None)
    ELSE LET old == trie[c.address].balance
         IN IF c.kind = "IncreaseBalance"
            THEN Reply("Ok", Some([trie EXCEPT ![c.address].balance = old + c.balance]))
            ELSE IF c.balance > old
                 THEN Reply("Ok", Some([trie EXCEPT ![c.address].balance = 0]))
                 ELSE Reply("Ok", Some([trie EXCEPT ![c.address].balance = old - c.balance]))

\* transit, vm::Account::IncreaseBalance(address, value) and
\* DecreaseBalance(address, value): the account is read (unwrap panics when
\* it is absent), its balance is added to or subtracted from with the
\* checked operators of U256, which panic instead of wrapping, and the
\* account is written back.
balance_change(trie, c) ==
    IF ~trie[c.address].exists THEN Reply("Panic", None)
    ELSE LET old == trie[c.address].balance
         IN IF c.kind = "IncreaseBalance"
            THEN Reply("Ok", Some([trie EXCEPT ![c.address].balance = old + c.balance]))
            ELSE IF c.balance > old
                 THEN Reply("Panic", None)
                 ELSE Reply("Ok", Some([trie EXCEPT ![c.address].balance = old - c.balance]))

ApplyChange_keeping_nonce(trie, c) ==
    CASE c.kind = "Full" ->
            [trie EXCEPT ![c.address] =
                [exists |-> TRUE, nonce |-> @.nonce, balance |-> c.balance,
                 storage |-> InsertSlots(@.storage, c.changing_storage),
                 code |-> @.code]]
      [] c.kind \in {"IncreaseBalance", "DecreaseBalance"} ->
            balance_change(trie, c).value[1]
      [] c.kind = "Create" ->
            IF ~c.exists THEN [trie EXCEPT ![c.address] = Nonexist]
            ELSE [trie EXCEPT ![c.address] =
                     [exists |-> TRUE, nonce |-> c.nonce, balance |-> c.balance,
                      storage |-> InsertSlots(EmptyStorage, c.storage),
                      code |-> c.code]]

\* transit with Account::Create writing the given slots into the storage of
\* the account that was at the address instead of into an empty trie.
ApplyChange_create_inheriting(trie, c) ==
    CASE c.kind = "Full" ->
            [trie EXCEPT ![c.address] =
                [exists |-> TRUE, nonce |-> c.nonce, balance |-> c.balance,
                 storage |-> InsertSlots(@.storage, c.changing_storage),
                 code |-> @.code]]
      [] c.kind \in {"IncreaseBalance", "DecreaseBalance"} ->
            balance_change(trie, c).value[1]
      [] c.kind = "Create" ->
            IF ~c.exists THEN [trie EXCEPT ![c.address] = Nonexist]
            ELSE [trie EXCEPT ![c.address] =
                     [exists |-> TRUE, nonce |-> c.nonce, balance |-> c.balance,
                      storage |-> InsertSlots(@.storage, c.storage),
                      code |-> c.code]]

\* The account changes of transit, applied to the working trie one by one.
ApplyChange(trie, c) ==
    CASE c.kind = "Full" ->
            [trie EXCEPT ![c.address] =
                [exists |-> TRUE, nonce |-> c.nonce, balance |-> c.balance,
                 storage |-> InsertSlots(@.storage, c.changing_storage),
                 code |-> @.code]]
      [] c.kind \in {"IncreaseBalance", "DecreaseBalance"} ->
            balance_change(trie, c).value[1]
      [] c.kind = "Create" ->
            IF ~c.exists THEN [trie EXCEPT ![c.address] = Nonexist]
            ELSE [trie EXCEPT ![c.address] =
                     [exists |-> TRUE, nonce |-> c.nonce, balance |-> c.balance,
                      storage |-> InsertSlots(EmptyStorage, c.storage),
                      code |-> c.code]]

RECURSIVE ApplyChanges(_, _)
ApplyChanges(trie, cs) ==
    IF cs = <<>> THEN trie ELSE ApplyChanges(ApplyChange(trie, Head(cs)), Tail(cs))

\* The bloom transit builds from the logs of the VM: the bit of every log's
\* address and of every topic is set.  A bloom is modelled by the set of
\* values whose bits are set, so that | is the union.
LogsBloom(logs) ==
    UNION {{logs[i].address} \cup Range(logs[i].topics) : i \in 1..Len(logs)}

\* The receipt transit builds once the changes are applied: its state_root
\* is the root of the working trie at that moment.
Receipt(used_gas, logs, root) ==
    [used_gas |-> used_gas, logs |-> logs, logs_bloom |-> LogsBloom(logs),
     state_root |-> root]

\* transit with the receipt's root read before the changes are applied.
transit_root_before_changes(trie, t) ==
    [state |-> ApplyChanges(trie, VMAccounts(t, trie)),
     receipt |-> Receipt(real_used_gas(t, trie), <<>>, trie)]

\* transit: run the VM on the working trie, apply vm.accounts(), build the
\* receipt.  The result is the new working trie and the receipt.
transit(trie, t) ==
    LET after == ApplyChanges(trie, VMAccounts(t, trie))
    IN [state |-> after, receipt |-> Receipt(real_used_gas(t, trie), <<>>, after)]

\* to_valid of the miner: the pre-execution checks against the working trie;
\* the result of from_transaction is unwrapped, so any refusal panics.
to_valid(t, trie) == from_transaction(t, trie)

RECURSIVE SumGas(_)
SumGas(rs) == IF rs = <<>> THEN 0 ELSE Head(rs).used_gas + SumGas(Tail(rs))

RECURSIVE OrBloom(_)
OrBloom(rs) == IF rs = <<>> THEN {} ELSE Head(rs).logs_bloom \cup OrBloom(Tail(rs))

\* next with logs_bloom assigned from each receipt instead of or-ed into
\* the bloom so far: the bloom of the last receipt survives.
next_bloom_of_last(cur, txs, rcpts, trie) ==
    [header |->
        [parent_hash |-> HeaderHash(cur.header),
         beneficiary |-> 0,
         state_root |-> trie,
         transactions_root |-> [i \in 1..Len(txs) |-> TransactionHash(txs[i])],
         receipts_root |-> rcpts,
         logs_bloom |-> IF rcpts = <<>> THEN {} ELSE rcpts[Len(rcpts)].logs_bloom,
         difficulty |-> 0,
         number |-> cur.header.number + 1,
         gas_used |-> SumGas(rcpts)],
     transactions |-> txs,
     ommers |-> <<>>]

\* next with the parent's own parent_hash copied into the new header.
next_copied_parent_hash(cur, txs, rcpts, trie) ==
    [header |->
        [parent_hash |-> cur.header.parent_hash,
         beneficiary |-> 0,
         state_root |-> trie,
         transactions_root |-> [i \in 1..Len(txs) |-> TransactionHash(txs[i])],
         receipts_root |-> rcpts,
         logs_bloom |-> OrBloom(rcpts),
         difficulty |-> 0,
         number |-> cur.header.number + 1,
         gas_used |-> SumGas(rcpts)],
     transactions |-> txs,
     ommers |-> <<>>]

\* next: the block that follows current_block, holding the transactions and
\* committing to the receipts and to the root of the working trie.
next(cur, txs, rcpts, trie) ==
    [header |->
        [parent_hash |-> HeaderHash(cur.header),
         beneficiary |-> 0,
         state_root |-> trie,
         transactions_root |-> [i \in 1..Len(txs) |-> TransactionHash(txs[i])],
         receipts_root |-> rcpts,
         logs_bloom |-> OrBloom(rcpts),
         difficulty |-> 0,
         number |-> cur.header.number + 1,
         gas_used |-> SumGas(rcpts)],
     transactions |-> txs,
     ommers |-> <<>>]

\* The genesis block: number 0, no parent, no transactions, the state root
\* of the funded genesis accounts.
Genesis ==
    [header |->
        [parent_hash |-> ZeroHash,
         beneficiary |-> 0,
         state_root |-> GenesisTrie,
         transactions_root |-> <<>>,
         receipts_root |-> <<>>,
         logs_bloom |-> {},
         difficulty |-> 0,
         number |-> 0,
         gas_used |-> 0],
     transactions |-> <<>>,
     ommers |-> <<>>]

\* --------------------------------------------------------------- state
VARIABLES
    miner_state,        \* the MinerState behind the chain mutex
    channel,            \* number of wakes sent on the miner's channel
    rpc_result,         \* reply of the RPC handler run by the last step
    pc,                 \* position of the miner thread in mine_loop
    current_block,      \* mine_loop: the block the round builds on
    transactions,       \* mine_loop: the transactions drained for the round
    receipts,           \* mine_loop: the receipts produced so far in the round
    state,              \* mine_loop: the working trie of the round
    filter,             \* the FilterManager behind the filter mutex
    polled              \* history: what eth_getFilterChanges returned so far

vars == <<miner_state, channel, rpc_result, pc, current_block, transactions,
          receipts, state, filter, polled>>

filter_vars == <<filter, polled>>

miner_vars == <<pc, current_block, transactions, receipts, state>>

\* ------------------------------------------------------------ MinerState
\* MinerState::new(genesis, stateful).
MinerStateNew(genesis, stateful, keys) ==
    LET hash == HeaderHash(genesis.header)
    IN [all_pending_transaction_hashes |-> <<>>,
        pending_transaction_hashes |-> <<>>,
        current_block |-> hash,
        block_hashes |-> <<hash>>,
        transaction_block_hashes |-> <<>>,
        total_header_database |->
            Insert(<<>>, hash, [header |-> genesis.header,
                                total_difficulty |-> genesis.header.difficulty]),
        transaction_database |-> <<>>,
        block_database |-> Insert(<<>>, hash, genesis),
        receipt_database |-> <<>>,
        accounts |-> keys,
        stateful |-> stateful]

\* append_pending_transaction putting the hash in front of the list of all
\* accepted hashes.
append_pending_transaction_prepending(self, t) ==
    LET hash == TransactionHash(t)
    IN [self EXCEPT
          !.transaction_database = Insert(@, hash, t),
          !.pending_transaction_hashes = Append(@, hash),
          !.all_pending_transaction_hashes = <<hash>> \o @]

\* MinerState::append_pending_transaction.
append_pending_transaction(self, t) ==
    LET hash == TransactionHash(t)
    IN [self EXCEPT
          !.transaction_database = Insert(@, hash, t),
          !.pending_transaction_hashes = Append(@, hash),
          !.all_pending_transaction_hashes = Append(@, hash)]

\* MinerState::clear_pending_transactions: the MinerState afterwards ...
clear_pending_transactions_self(self) ==
    [self EXCEPT !.pending_transaction_hashes = <<>>]

\* ... and the transactions it returns.
clear_pending_transactions(self) ==
    [i \in 1..Len(self.pending_transaction_hashes) |->
        self.transaction_database[self.pending_transaction_hashes[i]]]

\* The transaction -> block index after the transactions of a block are
\* recorded, in order.
RECURSIVE IndexTransactions(_, _, _)
IndexTransactions(index, txs, hash) ==
    IF txs = <<>> THEN index
    ELSE IndexTransactions(Insert(index, TransactionHash(Head(txs)), hash), Tail(txs), hash)

\* append_block recording the transactions under the hash of the parent
\* instead of the hash of the block itself.
append_block_indexing_parent(self, block) ==
    LET hash == HeaderHash(block.header)
        parent_hash == self.block_hashes[Len(self.block_hashes)]
        parent == self.total_header_database[parent_hash]
    IN [self EXCEPT
          !.block_database = Insert(@, hash, block),
          !.transaction_block_hashes =
              IndexTransactions(@, block.transactions, parent_hash),
          !.total_header_database =
              Insert(@, hash, [header |-> block.header,
                               total_difficulty |->
                                   parent.total_difficulty + block.header.difficulty]),
          !.block_hashes = Append(@, hash),
          !.current_block = hash]

\* append_block putting the new hash in front of block_hashes.
append_block_prepending(self, block) ==
    LET hash == HeaderHash(block.header)
        parent_hash == self.block_hashes[Len(self.block_hashes)]
        parent == self.total_header_database[parent_hash]
    IN [self EXCEPT
          !.block_database = Insert(@, hash, block),
          !.transaction_block_hashes = IndexTransactions(@, block.transactions, hash),
          !.total_header_database =
              Insert(@, hash, [header |-> block.header,
                               total_difficulty |->
                                   parent.total_difficulty + block.header.difficulty]),
          !.block_hashes = <<hash>> \o @,
          !.current_block = hash]

\* append_block overwriting the last entry of block_hashes instead of
\* pushing a new one.
append_block_overwriting_last(self, block) ==
    LET hash == HeaderHash(block.header)
        parent_hash == self.block_hashes[Len(self.block_hashes)]
        parent == self.total_header_database[parent_hash]
    IN [self EXCEPT
          !.block_database = Insert(@, hash, block),
          !.transaction_block_hashes = IndexTransactions(@, block.transactions, hash),
          !.total_header_database =
              Insert(@, hash, [header |-> block.header,
                               total_difficulty |->
                                   parent.total_difficulty + block.header.difficulty]),
          !.block_hashes = [@ EXCEPT ![Len(@)] = hash],
          !.current_block = hash]

\* append_block leaving current_block at the hash it held.
append_block_keeping_current(self, block) ==
    LET hash == HeaderHash(block.header)
        parent_hash == self.block_hashes[Len(self.block_hashes)]
        parent == self.total_header_database[parent_hash]
    IN [self EXCEPT
          !.block_database = Insert(@, hash, block),
          !.transaction_block_hashes = IndexTransactions(@, block.transactions, hash),
          !.total_header_database =
              Insert(@, hash, [header |-> block.header,
                               total_difficulty |->
                                   parent.total_difficulty + block.header.difficulty]),
          !.block_hashes = Append(@, hash)]

\* MinerState::append_block.
append_block(self, block) ==
    LET hash == HeaderHash(block.header)
        parent_hash == self.block_hashes[Len(self.block_hashes)]
        parent == self.total_header_database[parent_hash]
    IN [self EXCEPT
          !.block_database = Insert(@, hash, block),
          !.transaction_block_hashes = IndexTransactions(@, block.transactions, hash),
          !.total_header_database =
              Insert(@, hash, [header |-> block.header,
                               total_difficulty |->
                                   parent.total_difficulty + block.header.difficulty]),
          !.block_hashes = Append(@, hash),
          !.current_block = hash]

\* MinerState::block_height.
block_height(self) == Len(self.block_hashes) - 1

\* MinerState::get_block_by_number; indices start at 0.
get_block_by_number(self, index) == self.block_database[self.block_hashes[index + 1]]

\* MinerState::current_block.
current_block_of(self) == get_block_by_number(self, block_height(self))

\* Stateful::state_of(root): the account trie with that root.
state_of(root) == root

\* ------------------------------------------------------------ RPC service
NoCall == Reply("NoCall", None)

\* to_signed_transaction with the default nonce counting the sender's
\* transactions in the pending queue on top of the account's nonce.
to_signed_transaction_counting_pending(self, rpc) ==
    LET address == FromStr(HexAddress, rpc.from)
        block == get_block_by_number(self, block_height(self))
        account == state_of(block.header.state_root)[address.val]
        pending == {i \in 1..Len(self.pending_transaction_hashes) :
                       self.transaction_database[self.pending_transaction_hashes[i]].caller
                          = address.val}
        nonce == IF rpc.nonce = None
                 THEN [err |-> "Ok",
                       val |-> (IF account.exists THEN account.nonce ELSE 0)
                                  + Cardinality(pending)]
                 ELSE FromStr(HexU256, rpc.nonce[1])
        to == FromStr(HexAddress, rpc.to)
        value == FromStr(HexU256, rpc.value)
        unsigned == [nonce |-> nonce.val, gas_price |-> 0, gas_limit |-> DefaultGas,
                     to |-> to.val, value |-> value.val, input |-> "",
                     caller |-> address.val]
    IN IF address.err # "Ok" THEN Reply(address.err, None)
       ELSE IF address.val \notin Range(self.accounts) THEN Reply("NotFound", None)
       ELSE IF nonce.err # "Ok" THEN Reply(nonce.err, None)
       ELSE IF to.err # "Ok" THEN Reply(to.err, None)
       ELSE IF value.err # "Ok" THEN Reply(value.err, None)
       ELSE Reply("Ok", Some(unsigned))

\* to_signed_transaction: the signed transaction built from the request,
\* or the error that ends the handler.
to_signed_transaction(self, rpc) ==
    LET address == FromStr(HexAddress, rpc.from)
        block == get_block_by_number(self, block_height(self))
        account == state_of(block.header.state_root)[address.val]
        nonce == IF rpc.nonce = None
                 THEN [err |-> "Ok", val |-> IF account.exists THEN account.nonce ELSE 0]
                 ELSE FromStr(HexU256, rpc.nonce[1])
        to == FromStr(HexAddress, rpc.to)
        value == FromStr(HexU256, rpc.value)
        unsigned == [nonce |-> nonce.val, gas_price |-> 0, gas_limit |-> DefaultGas,
                     to |-> to.val, value |-> value.val, input |-> "",
                     caller |-> address.val]
    IN IF address.err # "Ok" THEN Reply(address.err, None)
       ELSE IF address.val \notin Range(self.accounts) THEN Reply("NotFound", None)
       ELSE IF nonce.err # "Ok" THEN Reply(nonce.err, None)
       ELSE IF to.err # "Ok" THEN Reply(to.err, None)
       ELSE IF value.err # "Ok" THEN Reply(value.err, None)
       ELSE Reply("Ok", Some(unsigned))

\* Stateful::to_valid of the RPC service: the pre-execution checks against
\* the trie at the root the Stateful holds; a refusal is Error::CallError.
stateful_to_valid(self, t) ==
    IF from_transaction(t, state_of(self.stateful)) = "Ok" THEN "Ok" ELSE "CallError"

\* The two submission handlers share their tail.  `signed` is the outcome of
\* building (or decoding) the transaction, `valid` that of Stateful::to_valid;
\* the ? operator returns the first error before anything is enqueued.
submit_reply(signed, valid) ==
    IF signed.err # "Ok" THEN Reply(signed.err, None)
    ELSE IF valid # "Ok" THEN Reply(valid, None)
    ELSE Reply("Ok", Some(TransactionHash(signed.value[1])))

\* A handler that enqueues before it validates.
submit_self_before_valid(self, signed, valid) ==
    IF signed.err = "Ok" THEN append_pending_transaction(self, signed.value[1]) ELSE self

\* The MinerState a submission handler leaves behind.
submit_self(self, signed, valid) ==
    IF signed.err = "Ok" /\ valid = "Ok"
    THEN append_pending_transaction(self, signed.value[1])
    ELSE self

\* The wakes in the channel once the handler has returned: channel.send(true)
\* comes after append_pending_transaction.
submit_channel(sent, signed, valid) ==
    IF signed.err = "Ok" /\ valid = "Ok" THEN sent + 1 ELSE sent

Submit(signed) ==
    LET valid == IF signed.err = "Ok"
                 THEN stateful_to_valid(miner_state, signed.value[1])
                 ELSE "CallError"
    IN /\ submit_reply(signed, valid).err = "Ok" =>
              Len(miner_state.all_pending_transaction_hashes) < MaxSubmit
       /\ miner_state' = submit_self(miner_state, signed, valid)
       /\ channel' = submit_channel(channel, signed, valid)
       /\ rpc_result' = submit_reply(signed, valid)
       /\ UNCHANGED <<miner_vars, filter_vars>>

\* eth_sendTransaction.
send_transaction ==
    \E rpc \in RPCTransactions : Submit(to_signed_transaction(miner_state, rpc))

\* UntrustedRlp::as_val: the transaction the bytes encode, or RlpError.
rlp_as_val(data) ==
    IF ~data.rlp THEN Reply("RlpError", None)
    ELSE Reply("Ok", Some([nonce |-> data.nonce, gas_price |-> data.gas_price,
                           gas_limit |-> data.gas_limit, to |-> data.to,
                           value |-> data.value, input |-> data.input,
                           caller |-> data.caller]))

\* eth_sendRawTransaction.
send_raw_transaction ==
    \E data \in RawTransactions : Submit(rlp_as_val(data))

\* The block parameters RPC requests are drawn from.  A hex parameter is
\* decoded by read_hex and U256::from into a 256-bit number, written here as
\* its low 64 bits and whether any higher bit is set; "zz" is no hex string.
HexBlock ==
    ("0x0" :> [high |-> FALSE, low |-> 0]) @@ ("0x1" :> [high |-> FALSE, low |-> 1])
    @@ ("0x2" :> [high |-> FALSE, low |-> 2]) @@ ("0x3" :> [high |-> FALSE, low |-> 3])
    @@ ("0x4" :> [high |-> FALSE, low |-> 4])
    @@ ("0x10000000000000000" :> [high |-> TRUE, low |-> 0])

BlockParams ==
    {None, Some("latest"), Some("pending"), Some("earliest"), Some("zz")}
    \cup {Some(x) : x \in DOMAIN HexBlock}

\* U256 -> u64 (.into(), as_usize): the conversion checks for overflow and
\* panics when a bit above the low 64 is set.
as_u64(v) == IF v.high THEN Reply("Panic", None) ELSE Reply("Ok", Some(v.low))

\* from_block_number.
from_block_number(self, value) ==
    IF value \in {Some("latest"), Some("pending"), None}
    THEN Reply("Ok", Some(block_height(self)))
    ELSE IF value = Some("earliest") THEN Reply("Ok", Some(0))
    ELSE IF value[1] \notin DOMAIN HexBlock THEN Reply("HexError", None)
    ELSE LET v == as_u64(HexBlock[value[1]])
         IN IF v.err # "Ok" THEN v
            ELSE IF v.value[1] > block_height(self) THEN Reply("NotFound", None)
            ELSE v

\* The data of eth_call requests and the program it encodes:
\*   0x                      no code;
\*   0x4360005260206000f3    NUMBER, MSTORE, RETURN: returns the block number;
\*   0x333160005260206000f3  CALLER, BALANCE, MSTORE, RETURN: returns the
\*                           balance of the caller.
HexData ==
    ("0x" :> "STOP") @@ ("0x4360005260206000f3" :> "NUMBER")
    @@ ("0x333160005260206000f3" :> "CALLER_BALANCE")

\* The requests eth_call is called with: value, gas, gasPrice and nonce are
\* left out; without `to` the data runs as the code of a creation.
RPCCalls ==
    [from : {"0x1", "zz"}, to : {None, Some("0x2")}, data : DOMAIN HexData \cup {"zz"},
     value : {None}, nonce : {None}]

\* The requests eth_estimateGas is called with: plain value transfers.
RPCEstimates ==
    [from : {"0x1", "zz"}, to : {Some("0x2")}, data : {"0x"},
     value : {None, Some("0x1")}, nonce : {None}]

\* The block parameters given to eth_call and eth_estimateGas.
CallBlockParams ==
    {Some("latest"), Some("earliest"), Some("0x1"), Some("0x2"), Some("0x3")}

\* to_valid_transaction: the ValidTransaction built from the request, or the
\* error that ends the handler.  The default nonce is read from the state of
\* the latest block.
to_valid_transaction(self, rpc) ==
    LET address == FromStr(HexAddress, rpc.from)
        block == get_block_by_number(self, block_height(self))
        account == state_of(block.header.state_root)[address.val]
        nonce == IF rpc.nonce = None
                 THEN [err |-> "Ok", val |-> IF account.exists THEN account.nonce ELSE 0]
                 ELSE FromStr(HexU256, rpc.nonce[1])
        to == IF rpc.to = None THEN [err |-> "Ok", val |-> None]
              ELSE LET a == FromStr(HexAddress, rpc.to[1])
                   IN [err |-> a.err, val |-> Some(a.val)]
        value == IF rpc.value = None THEN [err |-> "Ok", val |-> 0]
                 ELSE FromStr(HexU256, rpc.value[1])
        input == IF rpc.data \in DOMAIN HexData
                 THEN [err |-> "Ok", val |-> HexData[rpc.data]]
                 ELSE [err |-> "HexError", val |-> "STOP"]
        valid == [nonce |-> nonce.val, gas_price |-> 0, gas_limit |-> DefaultGas,
                  to |-> to.val, value |-> value.val, input |-> input.val,
                  caller |-> address.val]
    IN IF address.err # "Ok" THEN Reply(address.err, None)
       ELSE IF nonce.err # "Ok" THEN Reply(nonce.err, None)
       ELSE IF to.err # "Ok" THEN Reply(to.err, None)
       ELSE IF value.err # "Ok" THEN Reply(value.err, None)
       ELSE IF input.err # "Ok" THEN Reply(input.err, None)
       ELSE Reply("Ok", Some(valid))

\* Stateful::call: the transaction runs on the trie at `root`, the root the
\* Stateful holds, with the header parameters it is given; nothing is
\* written back.  A creation runs its data as code; a call to an account
\* without code returns nothing.
stateful_call(root, valid, header) ==
    LET trie == state_of(root)
    IN [out |-> IF valid.to # None THEN <<>>
                ELSE CASE valid.input = "STOP" -> <<>>
                       [] valid.input = "NUMBER" -> <<header.number>>
                       [] valid.input = "CALLER_BALANCE" ->
                             <<trie[valid.caller].balance - valid.value>>,
        real_used_gas |-> TransferGas]

\* eth_call and eth_estimateGas up to the VM: the request is converted, the
\* block parameter resolved, and the VM run by the Stateful of the MinerState
\* with the header of the block named.
call_vm_at_current_root(self, rpc, block) ==
    LET valid == to_valid_transaction(self, rpc)
        number == from_block_number(self, block)
    IN IF valid.err # "Ok" THEN Reply(valid.err, None)
       ELSE IF number.err # "Ok" THEN Reply(number.err, None)
       ELSE Reply("Ok", Some(stateful_call(current_block_of(self).header.state_root,
                                           valid.value[1],
                                           get_block_by_number(self, number.value[1]).header)))

call_vm(self, rpc, block) ==
    LET valid == to_valid_transaction(self, rpc)
        number == from_block_number(self, block)
    IN IF valid.err # "Ok" THEN Reply(valid.err, None)
       ELSE IF number.err # "Ok" THEN Reply(number.err, None)
       ELSE Reply("Ok", Some(stateful_call(self.stateful, valid.value[1],
                                           get_block_by_number(self, number.value[1]).header)))

\* eth_call: vm.out().
call_reply(self, rpc, block) ==
    LET vm == call_vm(self, rpc, block)
    IN IF vm.err # "Ok" THEN vm ELSE Reply("Ok", Some(vm.value[1].out))

\* eth_estimateGas: vm.real_used_gas(), as the one number of the reply.
estimate_gas_reply(self, rpc, block) ==
    LET vm == call_vm(self, rpc, block)
    IN IF vm.err # "Ok" THEN vm ELSE Reply("Ok", Some(<<vm.value[1].real_used_gas>>))

\* A handler that runs the transaction with Stateful::execute, which writes
\* the changes back: the caller's nonce in the working state moves on.
call_self_executing(self, rpc, block) ==
    LET vm == call_vm(self, rpc, block)
        caller == to_valid_transaction(self, rpc).value[1].caller
    IN IF vm.err = "Ok" /\ state_of(self.stateful)[caller].exists
       THEN [self EXCEPT !.stateful[caller].nonce = @ + 1]
       ELSE self

\* The MinerState after eth_call or eth_estimateGas: the handlers hold it
\* through a shared reference and Stateful::call writes nothing back.
call_self(self, rpc, block) == self

call ==
    \E rpc \in RPCCalls, block \in CallBlockParams :
        /\ UNCHANGED <<channel, miner_vars, filter_vars>>
        /\ miner_state' = call_self(miner_state, rpc, block)
        /\ rpc_result' = call_reply(miner_state, rpc, block)

estimate_gas ==
    \E rpc \in RPCEstimates, block \in CallBlockParams :
        /\ UNCHANGED <<channel, miner_vars, filter_vars>>
        /\ miner_state' = call_self(miner_state, rpc, block)
        /\ rpc_result' = estimate_gas_reply(miner_state, rpc, block)

\* eth_blockNumber.
block_number(self) == block_height(self)

\* The slot numbers eth_getStorageAt is asked for.
Slots == {0, 1}

\* trie.get(&address.0) on stateful.state_of(block.header.state_root): the
\* account of the address in the state of the block with this number.
account_at(self, address, number) ==
    state_of(get_block_by_number(self, number).header.state_root)[address]

balance_defaulting_to_genesis(self, address, block) ==
    LET n == from_block_number(self, block)
    IN IF n.err # "Ok" THEN n
       ELSE LET account == account_at(self, address, n.value[1])
            IN IF account.exists THEN Reply("Ok", Some(account.balance))
               ELSE Reply("Ok", Some(Balance))

\* eth_getBalance.
balance(self, address, block) ==
    LET n == from_block_number(self, block)
    IN IF n.err # "Ok" THEN n
       ELSE LET account == account_at(self, address, n.value[1])
            IN IF account.exists THEN Reply("Ok", Some(account.balance))
               ELSE Reply("Ok", Some(0))

\* eth_getStorageAt: the slot is looked up in the storage trie of the
\* account through storage_state_of, a secure trie; a slot that is not found
\* is zero.
storage_at(self, address, index, block) ==
    LET n == from_block_number(self, block)
    IN IF n.err # "Ok" THEN n
       ELSE LET account == account_at(self, address, n.value[1])
            IN IF ~account.exists THEN Reply("Ok", Some(0))
               ELSE IF secure_key(index) \in DOMAIN account.storage
                    THEN Reply("Ok", Some(rlp_decode(account.storage[secure_key(index)])))
               ELSE Reply("Ok", Some(0))

\* eth_getTransactionCount.
transaction_count(self, address, block) ==
    LET n == from_block_number(self, block)
    IN IF n.err # "Ok" THEN n
       ELSE LET account == account_at(self, address, n.value[1])
            IN IF account.exists THEN Reply("Ok", Some(account.nonce))
               ELSE Reply("Ok", Some(0))

\* eth_getCode.
code(self, address, block) ==
    LET n == from_block_number(self, block)
    IN IF n.err # "Ok" THEN n
       ELSE LET account == account_at(self, address, n.value[1])
            IN IF account.exists THEN Reply("Ok", Some(account.code))
               ELSE Reply("Ok", Some(""))

\* Position of the transaction with this hash in the block, as the RPC
\* conversions search it: the first index whose transaction hashes to it.
transaction_index(block, hash) ==
    LET found == {i \in 1..Len(block.transactions) :
                     TransactionHash(block.transactions[i]) = hash}
    IN IF found = {} THEN None
       ELSE Some((CHOOSE i \in found : \A j \in found : i <= j) - 1)

\* eth_getTransactionByHash: null for an unknown hash; the block fields are
\* null unless the hash is indexed to a stored block.
transaction_by_hash(self, hash) ==
    IF hash \notin DOMAIN self.transaction_database THEN None
    ELSE LET transaction == self.transaction_database[hash]
             block == IF hash \in DOMAIN self.transaction_block_hashes
                         /\ self.transaction_block_hashes[hash] \in DOMAIN self.block_database
                      THEN Some(self.block_database[self.transaction_block_hashes[hash]])
                      ELSE None
         IN Some([hash |-> TransactionHash(transaction),
                  from |-> transaction.caller,
                  nonce |-> transaction.nonce,
                  block_hash |-> IF block = None THEN None
                                 ELSE Some(HeaderHash(block[1].header)),
                  block_number |-> IF block = None THEN None
                                   ELSE Some(block[1].header.number),
                  transaction_index |-> IF block = None THEN None
                                        ELSE transaction_index(block[1], hash)])

\* to_rpc_receipt: cumulative_gas_used, the used_gas of the stored receipts of
\* the block's transactions 0..index; a receipt that is not stored ends the
\* conversion with NotFound.
RECURSIVE SumStoredGas(_, _, _)
SumStoredGas(self, block, count) ==
    IF count = 0 THEN 0
    ELSE self.receipt_database[TransactionHash(block.transactions[count])].used_gas
            + SumStoredGas(self, block, count - 1)

cumulative_gas_used(self, block, index) ==
    IF \E i \in 1..(index + 1) :
          TransactionHash(block.transactions[i]) \notin DOMAIN self.receipt_database
    THEN Reply("NotFound", None)
    ELSE Reply("Ok", Some(SumStoredGas(self, block, index + 1)))

\* to_rpc_receipt; the position of the transaction in the block is asserted
\* to be found.
to_rpc_receipt(self, receipt, hash, block) ==
    LET index == transaction_index(block, hash)
        cumulative == cumulative_gas_used(self, block, index[1])
    IN IF index = None THEN Reply("Panic", None)
       ELSE IF cumulative.err # "Ok" THEN Reply(cumulative.err, None)
       ELSE Reply("Ok", Some([transaction_hash |-> hash,
                              transaction_index |-> index[1],
                              block_hash |-> HeaderHash(block.header),
                              block_number |-> block.header.number,
                              cumulative_gas_used |-> cumulative.value[1],
                              gas_used |-> receipt.used_gas]))

\* eth_getTransactionReceipt: null unless the receipt, the transaction, the
\* block index entry and the block are all there.
transaction_receipt(self, hash) ==
    IF hash \notin DOMAIN self.receipt_database THEN Reply("Ok", None)
    ELSE IF hash \notin DOMAIN self.transaction_database THEN Reply("Ok", None)
    ELSE IF hash \notin DOMAIN self.transaction_block_hashes THEN Reply("Ok", None)
    ELSE IF self.transaction_block_hashes[hash] \notin DOMAIN self.block_database
         THEN Reply("Ok", None)
    ELSE to_rpc_receipt(self, self.receipt_database[hash], hash,
                        self.block_database[self.transaction_block_hashes[hash]])

\* ---------------------------------------------------------- read getters
\* The hex numbers given as a block number or an index (Hex<U256>).
HexIndex == {HexBlock[x] : x \in DOMAIN HexBlock}

\* The block numbers the debug handlers take (usize).
Numbers == 0..4

\* Into<jsonrpc_core::Error> for Error: every kind becomes invalid_request.
into_jsonrpc_error(err) == "invalid_request"

\* The reply the client gets for what a handler returned.
rpc_reply(r) ==
    IF r.err \in {"Ok", "Panic"} THEN r ELSE Reply(into_jsonrpc_error(r.err), None)

\* to_rpc_transaction with the block given.
to_rpc_transaction(transaction, block) ==
    [hash |-> TransactionHash(transaction),
     from |-> transaction.caller,
     nonce |-> transaction.nonce,
     block_hash |-> Some(HeaderHash(block.header)),
     block_number |-> Some(block.header.number),
     transaction_index |-> transaction_index(block, TransactionHash(transaction))]

\* to_rpc_block.
to_rpc_block(block, total, full) ==
    [number |-> block.header.number,
     hash |-> HeaderHash(block.header),
     parent_hash |-> block.header.parent_hash,
     state_root |-> block.header.state_root,
     gas_used |-> block.header.gas_used,
     total_difficulty |-> total.total_difficulty,
     transactions |->
        IF full
        THEN [i \in 1..Len(block.transactions) |->
                 to_rpc_transaction(block.transactions[i], block)]
        ELSE [i \in 1..Len(block.transactions) |->
                 TransactionHash(block.transactions[i])],
     uncles |-> [i \in 1..Len(block.ommers) |-> HeaderHash(block.ommers[i])]]

\* eth_getBlockTransactionCountByHash.
block_transaction_count_by_hash(self, hash) ==
    IF hash \notin DOMAIN self.block_database THEN Reply("Ok", None)
    ELSE Reply("Ok", Some(Len(self.block_database[hash].transactions)))

\* eth_getBlockTransactionCountByNumber.
block_transaction_count_by_number(self, number) ==
    LET n == from_block_number(self, Some(number))
    IN IF n.err = "NotFound" THEN Reply("Ok", None)
       ELSE IF n.err # "Ok" THEN n
       ELSE Reply("Ok", Some(Len(get_block_by_number(self, n.value[1]).transactions)))

\* eth_getUncleCountByBlockHash.
block_uncles_count_by_hash(self, hash) ==
    IF hash \notin DOMAIN self.block_database THEN Reply("Ok", None)
    ELSE Reply("Ok", Some(Len(self.block_database[hash].ommers)))

\* eth_getUncleCountByBlockNumber.
block_uncles_count_by_number(self, number) ==
    LET n == from_block_number(self, Some(number))
    IN IF n.err = "NotFound" THEN Reply("Ok", None)
       ELSE IF n.err # "Ok" THEN n
       ELSE Reply("Ok", Some(Len(get_block_by_number(self, n.value[1]).ommers)))

\* eth_getBlockByHash.
block_by_hash(self, hash, full) ==
    IF hash \notin DOMAIN self.block_database THEN Reply("Ok", None)
    ELSE IF hash \notin DOMAIN self.total_header_database THEN Reply("Ok", None)
    ELSE Reply("Ok", Some(to_rpc_block(self.block_database[hash],
                                       self.total_header_database[hash], full)))

\* eth_getBlockByNumber.
block_by_number(self, number, full) ==
    LET n == from_block_number(self, Some(number))
    IN IF n.err = "NotFound" THEN Reply("Ok", None)
       ELSE IF n.err # "Ok" THEN n
       ELSE LET block == get_block_by_number(self, n.value[1])
                hash == HeaderHash(block.header)
            IN IF hash \notin DOMAIN self.total_header_database THEN Reply("Ok", None)
               ELSE Reply("Ok", Some(to_rpc_block(block, self.total_header_database[hash],
                                                  full)))

\* The tail of both transaction-by-index getters: index.0.as_usize() is
\* compared with the number of transactions, then used.
transaction_at(block, index) ==
    LET i == as_u64(index)
    IN IF i.err # "Ok" THEN i
       ELSE IF i.value[1] >= Len(block.transactions) THEN Reply("Ok", None)
       ELSE Reply("Ok", Some(to_rpc_transaction(block.transactions[i.value[1] + 1], block)))

\* eth_getTransactionByBlockHashAndIndex.
transaction_by_block_hash_and_index(self, block_hash, index) ==
    IF block_hash \notin DOMAIN self.block_database THEN Reply("Ok", None)
    ELSE transaction_at(self.block_database[block_hash], index)

\* eth_getTransactionByBlockNumberAndIndex.
transaction_by_block_number_and_index(self, number, index) ==
    LET n == from_block_number(self, Some(number))
    IN IF n.err = "NotFound" THEN Reply("Ok", None)
       ELSE IF n.err # "Ok" THEN n
       ELSE transaction_at(get_block_by_number(self, n.value[1]), index)

\* The tail of both uncle getters: block.ommers[index] is read without a
\* comparison with the number of ommers; the uncle is then looked up in the
\* block store.
uncle_at(self, block, i) ==
    IF i >= Len(block.ommers) THEN Reply("Panic", None)
    ELSE LET uncle_hash == HeaderHash(block.ommers[i + 1])
         IN IF uncle_hash \notin DOMAIN self.block_database THEN Reply("Ok", None)
            ELSE IF uncle_hash \notin DOMAIN self.total_header_database
                 THEN Reply("Ok", None)
            ELSE Reply("Ok", Some(to_rpc_block(self.block_database[uncle_hash],
                                               self.total_header_database[uncle_hash],
                                               FALSE)))

\* eth_getUncleByBlockHashAndIndex.
uncle_by_block_hash_and_index(self, block_hash, index) ==
    LET i == as_u64(index)
    IN IF i.err # "Ok" THEN i
       ELSE IF block_hash \notin DOMAIN self.block_database THEN Reply("Ok", None)
       ELSE uncle_at(self, self.block_database[block_hash], i.value[1])

\* eth_getUncleByBlockNumberAndIndex.
uncle_by_block_number_and_index(self, block_number_, index) ==
    LET n == from_block_number(self, Some(block_number_))
        i == as_u64(index)
    IN IF n.err = "NotFound" THEN Reply("Ok", None)
       ELSE IF n.err # "Ok" THEN n
       ELSE IF i.err # "Ok" THEN i
       ELSE uncle_at(self, get_block_by_number(self, n.value[1]), i.value[1])

\* debug_getBlockRlp.
block_rlp(self, number) ==
    IF number > block_height(self) THEN Reply("NotFound", None)
    ELSE Reply("Ok", Some(get_block_by_number(self, number)))

\* The byte strings debug_traceBlock is called with: the RLP of a block
\* without transactions whose header carries the given number, or bytes that
\* are no RLP of a block.
TraceBlocks ==
    {[rlp |-> TRUE, block |-> [Genesis EXCEPT !.header.number = n]] : n \in Numbers}
    \cup {[rlp |-> FALSE, block |-> Genesis]}

\* debug_traceBlock: the block before the given one and the hashes before
\* it are read by the number in the given header, without a comparison with
\* the height; every transaction of the block is then replayed.
trace_block(self, block_rlp_) ==
    IF ~block_rlp_.rlp THEN Reply("RlpError", None)
    ELSE LET block == block_rlp_.block
             last == IF block.header.number = 0 THEN 0 ELSE block.header.number - 1
         IN IF last > block_height(self) THEN Reply("Panic", None)
            ELSE IF block.header.number > Len(self.block_hashes) THEN Reply("Panic", None)
            ELSE Reply("Ok", Some([struct_logs |-> <<>>]))

\* debug_dumpBlock: the block is read by number without a comparison with
\* the height.
dump_block(self, number) ==
    IF number > block_height(self) THEN Reply("Panic", None)
    ELSE LET root == get_block_by_number(self, number).header.state_root
         IN Reply("Ok", Some([root |-> root,
                              accounts |-> {a \in Address : state_of(root)[a].exists}]))

\* ------------------------------------------------------------- mine_loop
\* The round starts: the current block is read, the pending queue is
\* drained, the working trie is opened at the current block's state root.
mine_begin ==
    /\ pc = "loop"
    /\ block_height(miner_state) < MaxHeight
    /\ current_block' = current_block_of(miner_state)
    /\ transactions' = clear_pending_transactions(miner_state)
    /\ miner_state' = clear_pending_transactions_self(miner_state)
    /\ state' = state_of(current_block_of(miner_state).header.state_root)
    /\ receipts' = <<>>
    /\ pc' = "for"
    /\ rpc_result' = NoCall
    /\ UNCHANGED <<channel, filter_vars>>

\* One turn of the for loop: to_valid, then transit.  A transaction the
\* pre-execution checks refuse makes to_valid panic, which ends the thread.
mine_transaction ==
    /\ pc = "for"
    /\ Len(receipts) < Len(transactions)
    /\ LET transaction == transactions[Len(receipts) + 1]
       IN IF to_valid(transaction, state) # "Ok"
          THEN /\ pc' = "panicked"
               /\ UNCHANGED <<receipts, state>>
          ELSE /\ receipts' = Append(receipts, transit(state, transaction).receipt)
               /\ state' = transit(state, transaction).state
               /\ pc' = "for"
    /\ rpc_result' = NoCall
    /\ UNCHANGED <<miner_state, channel, current_block, transactions, filter_vars>>

\* The round ends: next builds the block, append_block stores it, and the
\* thread goes to sleep.
mine_append ==
    /\ pc = "for"
    /\ Len(receipts) = Len(transactions)
    /\ miner_state' =
          append_block(miner_state, next(current_block, transactions, receipts, state))
    /\ pc' = "sleep"
    /\ current_block' = Genesis
    /\ transactions' = <<>>
    /\ receipts' = <<>>
    /\ state' = EmptyTrie
    /\ rpc_result' = NoCall
    /\ UNCHANGED <<channel, filter_vars>>

\* thread::sleep(Duration::from_millis(10000)) returns: the ten seconds are
\* over, whatever was sent on the channel meanwhile, and the loop starts
\* over.
sleep ==
    /\ pc = "sleep"
    /\ pc' = "loop"
    /\ rpc_result' = NoCall
    /\ UNCHANGED <<miner_state, channel, current_block, transactions, receipts, state,
                   filter_vars>>

\* ---------------------------------------------------------------- filters
\* The topic hashes RPC log filters name, and what they decode to.
HexH256 == ("0xb" :> 11) @@ ("0xc" :> 12)

\* TopicFilter::All and TopicFilter::Or(hashes).
TopicAll == [all |-> TRUE, or |-> <<>>]
TopicOr(hashes) == [all |-> FALSE, or |-> hashes]

\* RPCTopicFilter::Single(s) and RPCTopicFilter::Or(ss).
RPCSingle(s) == [single |-> TRUE, strs |-> <<s>>]
RPCOr(ss) == [single |-> FALSE, strs |-> ss]

\* from_topic_filter.
from_topic_filter(f) ==
    IF f = None THEN Reply("Ok", Some(TopicAll))
    ELSE LET strs == f[1].strs
         IN IF \E i \in 1..Len(strs) : strs[i] \notin DOMAIN HexH256
            THEN Reply("HexError", None)
            ELSE Reply("Ok", Some(TopicOr([i \in 1..Len(strs) |-> HexH256[strs[i]]])))

\* from_log_filter with its loop over three topic positions.
from_log_filter_three_topics(self, f) ==
    LET from_block == from_block_number(self, f.from_block)
        to_block == from_block_number(self, f.to_block)
        address == IF f.address = None THEN [err |-> "Ok", val |-> 0]
                   ELSE FromStr(HexAddress, f.address[1])
        topic(i) == IF f.topics = None \/ Len(f.topics[1]) < i \/ i > 3
                    THEN Reply("Ok", Some(TopicAll))
                    ELSE from_topic_filter(f.topics[1][i])
    IN IF from_block.err # "Ok" THEN from_block
       ELSE IF to_block.err # "Ok" THEN to_block
       ELSE IF address.err # "Ok" THEN Reply("HexError", None)
       ELSE IF \E i \in 1..4 : topic(i).err # "Ok" THEN Reply("HexError", None)
       ELSE Reply("Ok", Some([from_block |-> from_block.value[1],
                              to_block |-> to_block.value[1],
                              address |-> IF f.address = None THEN None
                                          ELSE Some(address.val),
                              topics |-> [i \in 1..4 |-> topic(i).value[1]]]))

\* from_log_filter: the block parameters are resolved now, against the
\* current height; four topic positions are filled, with All where the
\* request has no entry or a null one.
from_log_filter(self, f) ==
    LET from_block == from_block_number(self, f.from_block)
        to_block == from_block_number(self, f.to_block)
        address == IF f.address = None THEN [err |-> "Ok", val |-> 0]
                   ELSE FromStr(HexAddress, f.address[1])
        topic(i) == IF f.topics = None \/ Len(f.topics[1]) < i
                    THEN Reply("Ok", Some(TopicAll))
                    ELSE from_topic_filter(f.topics[1][i])
    IN IF from_block.err # "Ok" THEN from_block
       ELSE IF to_block.err # "Ok" THEN to_block
       ELSE IF address.err # "Ok" THEN Reply("HexError", None)
       ELSE IF \E i \in 1..4 : topic(i).err # "Ok" THEN Reply("HexError", None)
       ELSE Reply("Ok", Some([from_block |-> from_block.value[1],
                              to_block |-> to_block.value[1],
                              address |-> IF f.address = None THEN None
                                          ELSE Some(address.val),
                              topics |-> [i \in 1..4 |-> topic(i).value[1]]]))

\* MinerState::get_receipt_by_transaction_hash.
get_receipt_by_transaction_hash(self, key) ==
    IF key \in DOMAIN self.receipt_database
    THEN Reply("Ok", Some(self.receipt_database[key]))
    ELSE Reply("NotFound", None)

\* A log matches a filter iff the filter names no address or the log's, and
\* at each of the four positions the filter is All or the log has a topic at
\* the position that is one of the listed hashes.
check_log(log, f) ==
    /\ f.address = None \/ f.address = Some(log.address)
    /\ \A i \in 1..4 :
          \/ f.topics[i].all
          \/ i <= Len(log.topics) /\ log.topics[i] \in Range(f.topics[i].or)

\* The log as the RPC reports it: with the number of its block and the
\* position of its transaction.
to_rpc_log(log, number, index) ==
    [address |-> log.address, topics |-> log.topics, block_number |-> number,
     transaction_index |-> index]

RECURSIVE Flatten(_)
Flatten(seqs) == IF seqs = <<>> THEN <<>> ELSE Head(seqs) \o Flatten(Tail(seqs))

\* The matching logs of the receipts, one receipt per transaction of block
\* `number`.
MatchingLogs(rcpts, number, f) ==
    Flatten([i \in 1..Len(rcpts) |->
                LET rpc == [j \in 1..Len(rcpts[i].logs) |->
                               to_rpc_log(rcpts[i].logs[j], number, i - 1)]
                IN SelectSeq(rpc, LAMBDA l : check_log(l, f))])

\* get_logs(state, filter): the matching logs of the blocks from_block ..
\* to_block that exist, block by block and transaction by transaction; the
\* logs of a transaction are those of its receipt in the chain store, and a
\* missing receipt is the error of get_receipt_by_transaction_hash.
get_logs(self, f) ==
    LET numbers == {n \in f.from_block..f.to_block : n <= block_height(self)}
        hashes(n) == LET txs == get_block_by_number(self, n).transactions
                     IN [i \in 1..Len(txs) |-> TransactionHash(txs[i])]
        first == IF numbers = {} THEN 0 ELSE CHOOSE n \in numbers : \A m \in numbers : n <= m
        of(n) == MatchingLogs([i \in 1..Len(hashes(n)) |->
                                  self.receipt_database[hashes(n)[i]]], n, f)
    IN IF \E n \in numbers : \E i \in 1..Len(hashes(n)) :
              get_receipt_by_transaction_hash(self, hashes(n)[i]).err # "Ok"
       THEN Reply("NotFound", None)
       ELSE Reply("Ok", Some(Flatten([k \in 1..Cardinality(numbers) |-> of(first + k - 1)])))

\* The FilterManager.  Filters do not depend on one another; the model keeps
\* one, under id 0.  A block filter's cursor is the last block number it
\* returned, a pending-transaction filter's the last count of accepted
\* transactions it returned, a log filter's the last block number whose logs
\* it returned.
NoLogFilter ==
    [from_block |-> 0, to_block |-> 0, address |-> None,
     topics |-> [i \in 1..4 |-> TopicAll]]

\* FilterManager::new.
FilterManagerNew == [kind |-> "None", cursor |-> 0, log |-> NoLogFilter]

\* The history of a filter: the height (for a pending-transaction filter the
\* count of accepted transactions) when it was installed and when
\* eth_getFilterChanges last succeeded, and the results of those calls,
\* concatenated.
NotPolled == [since |-> 0, at |-> 0, got |-> <<>>]
Installed(present) == [since |-> present, at |-> present, got |-> <<>>]

\* install_log_filter, install_block_filter, install_pending_transaction_filter.
install_log_filter(f) == [kind |-> "Log", cursor |-> f.from_block - 1, log |-> f]
install_block_filter(self) ==
    [kind |-> "Block", cursor |-> block_height(self), log |-> NoLogFilter]
install_pending_transaction_filter(self) ==
    [kind |-> "PendingTransaction",
     cursor |-> Len(self.all_pending_transaction_hashes), log |-> NoLogFilter]

\* The ids eth_getFilterChanges, eth_getFilterLogs and eth_uninstallFilter
\* are called with.
FilterIds == {"0x0", "0x1"}

\* FilterManager::get_changes(id): the cursor advances to the present ...
get_changes_self(fm, self, id) ==
    IF id # 0 THEN fm
    ELSE CASE fm.kind = "Block" -> [fm EXCEPT !.cursor = block_height(self)]
           [] fm.kind = "PendingTransaction" ->
                 [fm EXCEPT !.cursor = Len(self.all_pending_transaction_hashes)]
           [] fm.kind = "Log" -> [fm EXCEPT !.cursor = block_height(self)]
           [] OTHER -> fm

\* ... and the delta is returned: the hashes of the blocks above the cursor,
\* the hashes of the transactions accepted after the cursor, or the matching
\* logs of the blocks of the range above the cursor.
get_changes(fm, self, id) ==
    IF id # 0 \/ fm.kind = "None" THEN Reply("NotFound", None)
    ELSE CASE fm.kind = "Block" ->
                 Reply("Ok", Some(SubSeq(self.block_hashes, fm.cursor + 2,
                                         block_height(self) + 1)))
           [] fm.kind = "PendingTransaction" ->
                 Reply("Ok", Some(SubSeq(self.all_pending_transaction_hashes,
                                         fm.cursor + 1,
                                         Len(self.all_pending_transaction_hashes))))
           [] fm.kind = "Log" ->
                 get_logs(self, [fm.log EXCEPT !.from_block =
                                    IF fm.cursor + 1 > @ THEN fm.cursor + 1 ELSE @])

\* FilterManager::get_logs(id): the logs of the whole configured range.
filter_get_logs(fm, self, id) ==
    IF id # 0 \/ fm.kind # "Log" THEN Reply("NotFound", None)
    ELSE get_logs(self, fm.log)

\* U256::from_str(&id)?.as_usize().
filter_id(id) == FromStr(HexU256, id)

\* The log filters eth_newFilter is called with.
RPCLogFilters ==
    {[from_block |-> Some("earliest"), to_block |-> None, address |-> None,
      topics |-> None],
     [from_block |-> None, to_block |-> None, address |-> Some("zz"), topics |-> None]}

\* eth_newFilter.
new_filter ==
    /\ filter.kind = "None"
    /\ \E log \in RPCLogFilters :
          LET f == from_log_filter(miner_state, log)
          IN IF f.err # "Ok"
             THEN /\ rpc_result' = f
                  /\ UNCHANGED filter_vars
             ELSE /\ filter' = install_log_filter(f.value[1])
                  /\ polled' = NotPolled
                  /\ rpc_result' = Reply("Ok", Some("0x0"))
    /\ UNCHANGED <<miner_state, channel, miner_vars>>

\* eth_newBlockFilter.
new_block_filter ==
    /\ filter.kind = "None"
    /\ filter' = install_block_filter(miner_state)
    /\ polled' = Installed(block_height(miner_state))
    /\ rpc_result' = Reply("Ok", Some("0x0"))
    /\ UNCHANGED <<miner_state, channel, miner_vars>>

\* eth_newPendingTransactionFilter.
new_pending_transaction_filter ==
    /\ filter.kind = "None"
    /\ filter' = install_pending_transaction_filter(miner_state)
    /\ polled' = Installed(Len(miner_state.all_pending_transaction_hashes))
    /\ rpc_result' = Reply("Ok", Some("0x0"))
    /\ UNCHANGED <<miner_state, channel, miner_vars>>

\* eth_uninstallFilter.
uninstall_filter ==
    \E id \in FilterIds :
        /\ IF filter_id(id).err # "Ok"
           THEN /\ rpc_result' = Reply("HexError", None)
                /\ UNCHANGED filter_vars
           ELSE /\ rpc_result' = Reply("Ok", Some(TRUE))
                /\ IF filter_id(id).val = 0
                   THEN filter' = FilterManagerNew /\ polled' = NotPolled
                   ELSE UNCHANGED filter_vars
        /\ UNCHANGED <<miner_state, channel, miner_vars>>

\* filter_changes whose call of get_changes leaves the manager as it was.
filter_changes_self_discarding(fm, self, id) == fm

\* filter_changes: the FilterManager the handler leaves behind ...
filter_changes_self(fm, self, id) ==
    IF filter_id(id).err # "Ok" THEN fm
    ELSE get_changes_self(fm, self, filter_id(id).val)

\* ... and its reply.
filter_changes_reply(fm, self, id) ==
    IF filter_id(id).err # "Ok" THEN Reply("HexError", None)
    ELSE get_changes(fm, self, filter_id(id).val)

\* eth_getFilterChanges with this id.
filter_changes_of(id) ==
    LET r == filter_changes_reply(filter, miner_state, id)
    IN /\ rpc_result' = r
       /\ filter' = filter_changes_self(filter, miner_state, id)
       /\ polled' = IF r.err = "Ok" /\ filter.kind # "Log"
                    THEN [polled EXCEPT
                             !.got = @ \o r.value[1],
                             !.at = IF filter.kind = "Block"
                                    THEN block_height(miner_state)
                                    ELSE Len(miner_state.all_pending_transaction_hashes)]
                    ELSE polled
       /\ UNCHANGED <<miner_state, channel, miner_vars>>

\* eth_getFilterChanges.
filter_changes == \E id \in FilterIds : filter_changes_of(id)

\* eth_getFilterLogs.
filter_logs(fm, self, id) ==
    IF filter_id(id).err # "Ok" THEN Reply("HexError", None)
    ELSE filter_get_logs(fm, self, filter_id(id).val)

\* -------------------------------------------------------- specification
Init ==
    /\ miner_state = MinerStateNew(Genesis, GenesisTrie, GenesisKeys)
    /\ channel = 0
    /\ rpc_result = NoCall
    /\ pc = "loop"
    /\ current_block = Genesis
    /\ transactions = <<>>
    /\ receipts = <<>>
    /\ state = EmptyTrie
    /\ filter = FilterManagerNew
    /\ polled = NotPolled

Next ==
    \/ send_transaction
    \/ send_raw_transaction
    \/ mine_begin
    \/ mine_transaction
    \/ mine_append
    \/ sleep

Spec == Init /\ [][Next]_vars

\* ------------------------------- the node with eth_call and eth_estimateGas
NextCall ==
    \/ send_raw_transaction
    \/ mine_begin
    \/ mine_transaction
    \/ mine_append
    \/ sleep
    \/ call
    \/ estimate_gas

SpecCall == Init /\ [][NextCall]_vars

\* --------------------------------------- next on receipts that carry logs
\* The logs a contract call can leave in a receipt, and the receipts transit
\* builds from them.
Logs ==
    {<<>>,
     <<[address |-> 2, topics |-> <<>>]>>,
     <<[address |-> 3, topics |-> <<11>>]>>,
     <<[address |-> 2, topics |-> <<11, 12>>], [address |-> 3, topics |-> <<>>]>>}

LoggedReceipts ==
    {Receipt(gas, logs, GenesisTrie) : gas \in {TransferGas, DefaultGas}, logs \in Logs}

MinedTransactions ==
    [nonce : {0, 1}, gas_price : {0}, gas_limit : {DefaultGas}, to : {2}, value : {0},
     input : {""}, caller : {1}]

\* The miner at the end of the for loop of its first round, with the
\* transactions it drained and the receipts transit returned for them.
InitNext ==
    /\ miner_state = MinerStateNew(Genesis, GenesisTrie, GenesisKeys)
    /\ channel = 0
    /\ rpc_result = NoCall
    /\ pc = "for"
    /\ current_block = Genesis
    /\ \E len \in 0..2 :
          /\ transactions \in [1..len -> MinedTransactions]
          /\ receipts \in [1..len -> LoggedReceipts]
    /\ state = GenesisTrie
    /\ filter = FilterManagerNew
    /\ polled = NotPolled

SpecNext == InitNext /\ [][mine_append]_vars

\* ------------------------------------ the node with a contract on its chain
\* The raw transactions of a client that deploys a contract and calls it:
\* a creation whose init code stores 42 in slot 0 and leaves code that
\* increments slot 0, calls of the contract's address with or without value
\* (a plain transfer while nothing is deployed there), and transfers to a
\* genesis account.
ContractTransactions ==
    [rlp : {TRUE}, nonce : {0}, gas_price : {0}, gas_limit : {DefaultGas},
     to : {CreateAction}, value : {0}, input : {"STORE42"}, caller : {1, 2}]
    \cup [rlp : {TRUE}, nonce : {0}, gas_price : {0}, gas_limit : {DefaultGas},
          to : {ContractAddress}, value : {0, 1}, input : {""}, caller : {1, 2}]
    \cup [rlp : {TRUE}, nonce : {0}, gas_price : {0}, gas_limit : {DefaultGas},
          to : {2}, value : {1}, input : {""}, caller : {1}]

\* eth_sendRawTransaction, called by that client.
send_raw_transaction_contract ==
    \E data \in ContractTransactions : Submit(rlp_as_val(data))

NextStorage ==
    \/ send_raw_transaction_contract
    \/ mine_begin
    \/ mine_transaction
    \/ mine_append
    \/ sleep

SpecStorage == Init /\ [][NextStorage]_vars

\* ------------------------------------------- the node with a running miner
\* The miner thread is a running thread: whatever step of mine_loop it can
\* take it takes in the end, and a sleep of ten seconds ends.  Clients are
\* free to submit or not.
NextLive ==
    \/ send_raw_transaction
    \/ mine_begin
    \/ mine_transaction
    \/ mine_append
    \/ sleep

SpecLive ==
    /\ Init
    /\ [][NextLive]_vars
    /\ WF_vars(mine_begin)
    /\ WF_vars(mine_transaction)
    /\ WF_vars(mine_append)
    /\ WF_vars(sleep)

\* ----------------------------------------------------- the node with filters
\* The raw transactions of the clients that watch the filters: a transfer
\* signed by either genesis account.
WatchedTransactions ==
    [rlp : {TRUE}, nonce : {0}, gas_price : {0}, gas_limit : {DefaultGas},
     to : {3}, value : {1}, input : {""}, caller : {1, 2}]

\* eth_sendRawTransaction, called by those clients.
send_raw_transaction_watched ==
    \E data \in WatchedTransactions : Submit(rlp_as_val(data))

NextFilter ==
    \/ send_raw_transaction_watched
    \/ mine_begin
    \/ mine_transaction
    \/ mine_append
    \/ sleep
    \/ new_filter
    \/ new_block_filter
    \/ new_pending_transaction_filter
    \/ uninstall_filter
    \/ filter_changes

SpecFilter == Init /\ [][NextFilter]_vars

\* ---------------------------------------------------------------- claims
\* Helpers of the claims: the stored blocks, and the transaction hashes of
\* the blocks 0..n in block-number order.
Blocks == miner_state.block_database

RECURSIVE MinedHashes(_)
MinedHashes(n) ==
    LET txs == get_block_by_number(miner_state, n).transactions
        here == [i \in 1..Len(txs) |-> TransactionHash(txs[i])]
    IN IF n = 0 THEN here ELSE MinedHashes(n - 1) \o here

\* The trie obtained by applying the transactions in order, each by transit.
RECURSIVE Replay(_, _)
Replay(trie, txs) ==
    IF txs = <<>> THEN trie ELSE Replay(transit(trie, Head(txs)).state, Tail(txs))

\* No round is in progress: the miner sleeps between two rounds, or its
\* thread has ended.
Steady == pc # "for"

\* The transaction the for loop of the round is about to process fails the
\* pre-execution checks against the working trie.
FailsAtMining ==
    /\ pc = "for"
    /\ Len(receipts) < Len(transactions)
    /\ to_valid(transactions[Len(receipts) + 1], state) # "Ok"

\* C1: every stored block with number n > 0 has a parent_hash that is the
\* header hash of a stored block with number n - 1, and exactly one stored
\* block, the genesis, has number 0.
C1_ParentLinked ==
    /\ \A h \in DOMAIN Blocks :
          Blocks[h].header.number > 0 =>
             \E p \in DOMAIN Blocks :
                /\ HeaderHash(Blocks[p].header) = Blocks[h].header.parent_hash
                /\ Blocks[p].header.number = Blocks[h].header.number - 1
    /\ Cardinality({h \in DOMAIN Blocks : Blocks[h].header.number = 0}) = 1

C1_Witness == \E h \in DOMAIN Blocks : Blocks[h].header.number = 2

\* C2: whenever no round is in progress, the transactions of the appended
\* blocks in block-number order, followed by the pending queue, are exactly
\* the accepted transactions in acceptance order.
C2_NothingLost ==
    Steady =>
        MinedHashes(block_height(miner_state)) \o miner_state.pending_transaction_hashes
            = miner_state.all_pending_transaction_hashes

\* C3: once the miner is back asleep with an empty pending queue, every
\* hash a submission returned is in an appended block and
\* eth_getTransactionReceipt answers it with a receipt.
C3_MinedWithReceipt ==
    (pc = "loop" /\ miner_state.pending_transaction_hashes = <<>>) =>
        \A h \in Range(miner_state.all_pending_transaction_hashes) :
            /\ h \in DOMAIN miner_state.transaction_block_hashes
            /\ transaction_receipt(miner_state, h).value # None

\* C4: a returned hash is answered by eth_getTransactionByHash from then on,
\* with null block fields while it is pending, and eth_getTransactionReceipt
\* answers it only once it is indexed to an appended block that contains it,
\* never while it is pending.
C4_QueryableBeforeReceipt ==
    \A h \in Range(miner_state.all_pending_transaction_hashes) :
        /\ transaction_by_hash(miner_state, h) # None
        /\ h \in Range(miner_state.pending_transaction_hashes) =>
              /\ transaction_by_hash(miner_state, h)[1].block_hash = None
              /\ transaction_by_hash(miner_state, h)[1].block_number = None
              /\ transaction_receipt(miner_state, h).value = None
        /\ transaction_receipt(miner_state, h).value # None =>
              /\ h \in DOMAIN miner_state.transaction_block_hashes
              /\ \E b \in DOMAIN Blocks :
                    /\ b = miner_state.transaction_block_hashes[h]
                    /\ transaction_index(Blocks[b], h) # None

\* C5: the miner thread never ends on a transaction that fails to_valid: the
\* chain does not stall.
C5_NeverStalls == pc # "panicked"

\* C6: when the transaction at hand fails to_valid, the round goes on with
\* a receipt for it whose used_gas is the transaction's gas_limit and that
\* has no logs, and the transaction stays among those of the round's block.
C6_FailedStillMined ==
    [][(FailsAtMining /\ <<pc, receipts>>' # <<pc, receipts>>) =>
          /\ pc' = "for"
          /\ transactions' = transactions
          /\ Len(receipts') = Len(receipts) + 1
          /\ receipts'[Len(receipts')].used_gas
                = transactions[Len(receipts) + 1].gas_limit
          /\ receipts'[Len(receipts')].logs = <<>>]_vars

\* C7: a submission handler that returns an error leaves the pending queue,
\* the all-pending list and the transaction database as they were and sends
\* no wake.
C7_ErrorBeforeEnqueue ==
    [][rpc_result'.err \notin {"Ok", "NoCall"} =>
          /\ miner_state'.pending_transaction_hashes
                = miner_state.pending_transaction_hashes
          /\ miner_state'.all_pending_transaction_hashes
                = miner_state.all_pending_transaction_hashes
          /\ miner_state'.transaction_database = miner_state.transaction_database
          /\ channel' = channel]_vars

C7_Witness ==
    /\ rpc_result.err \in {"HexError", "NotFound", "RlpError", "CallError"}
    /\ miner_state.pending_transaction_hashes # <<>>

\* C8: the height eth_blockNumber returns never decreases from one step to
\* the next, and it grows by exactly one with every block stored.
C8_HeightMonotone ==
    [][/\ block_number(miner_state') >= block_number(miner_state)
       /\ block_number(miner_state') - block_number(miner_state)
            = Cardinality(DOMAIN miner_state'.block_database)
                - Cardinality(DOMAIN miner_state.block_database)]_vars

C8_Witness == block_number(miner_state) = 2 /\ rpc_result.err = "Ok"

\* C9: in every state, the root the Stateful of the MinerState holds is the
\* state_root of the latest appended block.
C9_StatefulAtLatest ==
    miner_state.stateful = current_block_of(miner_state).header.state_root

\* C10: for every appended block, receipt i carries the state root reached
\* by applying transactions 0..i to the parent's post-state, the block's
\* state_root is the root after the last one, and a block without
\* transactions keeps its parent's state_root.
C10_ReceiptRoots ==
    \A n \in 1..block_height(miner_state) :
        LET b == get_block_by_number(miner_state, n)
            parent == get_block_by_number(miner_state, n - 1).header.state_root
            rcpts == b.header.receipts_root
        IN /\ Len(rcpts) = Len(b.transactions)
           /\ \A i \in 1..Len(rcpts) :
                 rcpts[i].state_root = Replay(parent, SubSeq(b.transactions, 1, i))
           /\ b.header.state_root = Replay(parent, b.transactions)
           /\ b.transactions = <<>> => b.header.state_root = parent

C10_Witness ==
    \E n \in 1..block_height(miner_state) :
        Len(get_block_by_number(miner_state, n).transactions) = 2

\* C11: every appended block has as many receipts as transactions, receipt i
\* being the one of transaction i, and the receipt of each of its
\* transactions is retrievable by the transaction's hash.
C11_ReceiptPerTransaction ==
    \A n \in 1..block_height(miner_state) :
        LET b == get_block_by_number(miner_state, n)
            rcpts == b.header.receipts_root
        IN /\ Len(rcpts) = Len(b.transactions)
           /\ \A i \in 1..Len(b.transactions) :
                 LET h == TransactionHash(b.transactions[i])
                 IN /\ h \in DOMAIN miner_state.receipt_database
                    /\ miner_state.receipt_database[h] = rcpts[i]

\* C12: every key of transaction_block_hashes maps to the hash of a stored
\* block whose transaction list holds a transaction hashing to the key.
C12_IndexedToContainingBlock ==
    \A h \in DOMAIN miner_state.transaction_block_hashes :
        LET b == miner_state.transaction_block_hashes[h]
        IN /\ b \in DOMAIN Blocks
           /\ \E i \in 1..Len(Blocks[b].transactions) :
                 TransactionHash(Blocks[b].transactions[i]) = h

C12_Witness ==
    \E h, g \in DOMAIN miner_state.transaction_block_hashes :
        miner_state.transaction_block_hashes[h] # miner_state.transaction_block_hashes[g]

\* C14: for every appended block, header.gas_used is the sum of used_gas over
\* the block's receipts (0 for a block without transactions) and is the
\* cumulativeGasUsed that eth_getTransactionReceipt reports for the block's
\* last transaction.
C14_GasUsedIsSum ==
    \A n \in 1..block_height(miner_state) :
        LET b == get_block_by_number(miner_state, n)
            last == TransactionHash(b.transactions[Len(b.transactions)])
        IN /\ b.header.gas_used = SumGas(b.header.receipts_root)
           /\ b.transactions = <<>> => b.header.gas_used = 0
           /\ b.transactions # <<>> =>
                 /\ transaction_receipt(miner_state, last).value # None
                 /\ transaction_receipt(miner_state, last).value[1].cumulative_gas_used
                       = b.header.gas_used

\* C13: for every appended block, the header's logs_bloom is the bitwise OR
\* of the logs_bloom of all the block's receipts, and the empty bloom for a
\* block without transactions.
C13_BloomIsOr ==
    \A n \in 1..block_height(miner_state) :
        LET b == get_block_by_number(miner_state, n)
            rcpts == b.header.receipts_root
        IN /\ b.header.logs_bloom = UNION {rcpts[i].logs_bloom : i \in 1..Len(rcpts)}
           /\ b.transactions = <<>> => b.header.logs_bloom = {}

C13_Witness ==
    \E n \in 1..block_height(miner_state) :
        LET b == get_block_by_number(miner_state, n)
            rcpts == b.header.receipts_root
        IN /\ Len(rcpts) = 2
           /\ rcpts[1].logs_bloom # {}
           /\ rcpts[2].logs_bloom # {}
           /\ b.header.logs_bloom # rcpts[1].logs_bloom
           /\ b.header.logs_bloom # rcpts[2].logs_bloom

\* C18: from_block_number gives the current height for "latest", "pending"
\* and an absent parameter, 0 for "earliest", v for a hex number v <= height
\* and NotFound for a hex number v > height; a successful result is the
\* number of an existing block.
C18_BlockParameter ==
    \A value \in BlockParams :
        LET r == from_block_number(miner_state, value)
            height == block_height(miner_state)
        IN /\ value \in {None, Some("latest"), Some("pending")} =>
                 r = Reply("Ok", Some(height))
           /\ value = Some("earliest") => r = Reply("Ok", Some(0))
           /\ (value # None /\ value[1] \in DOMAIN HexBlock) =>
                 LET v == HexBlock[value[1]]
                 IN IF ~v.high /\ v.low <= height
                    THEN r = Reply("Ok", Some(v.low))
                    ELSE r = Reply("NotFound", None)
           /\ r.err = "Ok" => r.value[1] \in 0..height

\* The block parameter that names block n by its number.
NumberParam(n) ==
    Some(CHOOSE x \in DOMAIN HexBlock : HexBlock[x] = [high |-> FALSE, low |-> n])

\* C15: a step of eth_call or eth_estimateGas leaves the working state root,
\* the stored blocks (and with them every account at every block), the
\* chain indices, the pending queue and the receipt store as they were, and
\* sends no wake.
C15_CallHasNoEffect ==
    [][(call \/ estimate_gas) =>
          /\ miner_state'.stateful = miner_state.stateful
          /\ miner_state'.block_database = miner_state.block_database
          /\ miner_state'.block_hashes = miner_state.block_hashes
          /\ miner_state'.transaction_block_hashes = miner_state.transaction_block_hashes
          /\ miner_state'.total_header_database = miner_state.total_header_database
          /\ miner_state'.current_block = miner_state.current_block
          /\ miner_state'.pending_transaction_hashes
                = miner_state.pending_transaction_hashes
          /\ miner_state'.all_pending_transaction_hashes
                = miner_state.all_pending_transaction_hashes
          /\ miner_state'.transaction_database = miner_state.transaction_database
          /\ miner_state'.receipt_database = miner_state.receipt_database
          /\ channel' = channel]_vars

C15_Witness ==
    /\ rpc_result = Reply("Ok", Some(<<2>>))
    /\ miner_state.pending_transaction_hashes # <<>>

ReadsHeader(rpc) ==
    /\ rpc.to = None
    /\ rpc.data \in DOMAIN HexData
    /\ HexData[rpc.data] = "NUMBER"

C17_CallAtBlock ==
    \A rpc \in RPCCalls :
        \A n \in 0..block_height(miner_state) :
            LET r == call_reply(miner_state, rpc, NumberParam(n))
                at == get_block_by_number(miner_state, n)
                valid == to_valid_transaction(miner_state, rpc).value[1]
                account == state_of(at.header.state_root)[valid.caller]
                valid_at == [valid EXCEPT !.nonce = IF account.exists THEN account.nonce
                                                      ELSE 0]
            IN r.err = "Ok" =>
                  r.value[1] = stateful_call(at.header.state_root, valid_at, at.header).out

\* The hex number is above the height / not below the count it is compared to.
Above(v, n) == v.high \/ v.low > n

\* C19: the optional getters reply null, not an error, for an unknown hash, a
\* block number above the current height and an index that is out of range;
\* whatever else they are given, the reply is a result or the one
\* invalid-request error.
C19_NullNotError ==
    LET self == miner_state
        null == Reply("Ok", None)
        unknown == ZeroHash
        above == {x \in DOMAIN HexBlock : Above(HexBlock[x], block_height(self))}
        numbers == DOMAIN HexBlock \cup {"latest", "pending", "earliest", "zz"}
        hashes == DOMAIN self.block_database \cup {unknown}
        by_hash(h, i) ==
            <<block_by_hash(self, h, TRUE), block_by_hash(self, h, FALSE),
             block_transaction_count_by_hash(self, h),
             block_uncles_count_by_hash(self, h),
             transaction_by_block_hash_and_index(self, h, i),
             Reply("Ok", transaction_by_hash(self, h)),
             transaction_receipt(self, h)>>
        by_number(x, i) ==
            <<block_by_number(self, x, TRUE), block_by_number(self, x, FALSE),
             block_transaction_count_by_number(self, x),
             block_uncles_count_by_number(self, x),
             transaction_by_block_number_and_index(self, x, i)>>
    IN /\ \A i \in HexIndex : \A k \in 1..7 :
                   rpc_reply(by_hash(unknown, i)[k]) = null
       /\ \A i \in HexIndex : \A x \in above : \A k \in 1..5 :
                   rpc_reply(by_number(x, i)[k]) = null
       /\ \A h \in DOMAIN self.block_database : \A i \in HexIndex :
             Above(i, Len(self.block_database[h].transactions) - 1) =>
                rpc_reply(transaction_by_block_hash_and_index(self, h, i)) = null
       /\ \A n \in 0..block_height(self) : \A i \in HexIndex :
             Above(i, Len(get_block_by_number(self, n).transactions) - 1) =>
                rpc_reply(transaction_by_block_number_and_index(self, NumberParam(n)[1], i))
                   = null
       /\ \A i \in HexIndex :
             /\ \A h \in hashes : \A k \in 1..7 :
                   rpc_reply(by_hash(h, i)[k]).err \in {"Ok", "invalid_request"}
             /\ \A x \in numbers : \A k \in 1..5 :
                   rpc_reply(by_number(x, i)[k]).err \in {"Ok", "invalid_request"}

\* C20: whatever the method and the argument, the handler returns a result
\* or an error: none panics with the chain lock held.
C20_NoHandlerPanics ==
    LET self == miner_state
        numbers == DOMAIN HexBlock \cup {"latest", "pending", "earliest", "zz"}
        hashes == DOMAIN self.block_database \cup {ZeroHash}
    IN /\ \A h \in hashes : \A i \in HexIndex :
             uncle_by_block_hash_and_index(self, h, i).err # "Panic"
       /\ \A x \in numbers : \A i \in HexIndex :
             uncle_by_block_number_and_index(self, x, i).err # "Panic"
       /\ \A b \in TraceBlocks : trace_block(self, b).err # "Panic"
       /\ \A n \in Numbers :
             /\ dump_block(self, n).err # "Panic"
             /\ block_rlp(self, n).err # "Panic"

\* The address is the sender, the recipient or the deployed contract of a
\* transaction of a block up to number n.
Touched(a, n) ==
    \E m \in 0..n :
        \E i \in 1..Len(get_block_by_number(miner_state, m).transactions) :
            LET t == get_block_by_number(miner_state, m).transactions[i]
            IN \/ a = t.caller
               \/ a = t.to
               \/ t.to = CreateAction /\ a = ContractAddress

\* C21: for an address that is no genesis account and that no mined
\* transaction touched, eth_getBalance, eth_getTransactionCount and
\* eth_getStorageAt return zero and eth_getCode returns no bytes, at every
\* block number up to the current height.
C21_UntouchedReadsZero ==
    \A a \in Address \ Range(GenesisKeys) :
        ~Touched(a, block_height(miner_state)) =>
            \A n \in 0..block_height(miner_state) :
                /\ balance(miner_state, a, NumberParam(n)) = Reply("Ok", Some(0))
                /\ transaction_count(miner_state, a, NumberParam(n)) = Reply("Ok", Some(0))
                /\ \A i \in Slots :
                      storage_at(miner_state, a, i, NumberParam(n)) = Reply("Ok", Some(0))
                /\ code(miner_state, a, NumberParam(n)) = Reply("Ok", Some(""))

C21_Witness ==
    /\ block_height(miner_state) = 2
    /\ Len(get_block_by_number(miner_state, 1).transactions) = 1
    /\ Len(get_block_by_number(miner_state, 2).transactions) = 1
    /\ \E a \in Address \ Range(GenesisKeys) : ~Touched(a, 2)

\* C22: a step of the node that changes the list of block hashes or the
\* block store leaves every block it already had in place, and with it what
\* the state reads return at that block number for every address; so any
\* two states agree on every block number both have.
C22_AppendedImmutable ==
    [][\/ /\ miner_state'.block_hashes = miner_state.block_hashes
          /\ miner_state'.block_database = miner_state.block_database
       \/ \A n \in 0..block_height(miner_state) :
          /\ n <= block_height(miner_state')
          /\ get_block_by_number(miner_state', n) = get_block_by_number(miner_state, n)
          /\ \A a \in Address :
                /\ balance(miner_state', a, NumberParam(n))
                      = balance(miner_state, a, NumberParam(n))
                /\ transaction_count(miner_state', a, NumberParam(n))
                      = transaction_count(miner_state, a, NumberParam(n))
                /\ code(miner_state', a, NumberParam(n))
                      = code(miner_state, a, NumberParam(n))
                /\ \A i \in Slots :
                      storage_at(miner_state', a, i, NumberParam(n))
                         = storage_at(miner_state, a, i, NumberParam(n))]_vars

C22_Witness ==
    /\ block_height(miner_state) = 2
    /\ \E a \in Address :
          /\ balance(miner_state, a, Some("0x0")) # balance(miner_state, a, Some("0x1"))
          /\ balance(miner_state, a, Some("0x1")) # balance(miner_state, a, Some("0x2"))

\* C23: when the miner executes a value transfer of v from A to B at gas
\* price 0, the working state afterwards has B's balance raised by v, A's
\* balance lowered by v and A's nonce raised by one, and every other account
\* as it was; and the block the round appends carries exactly the working
\* state, so nothing is credited to the beneficiary or anyone else.
C23_TransferMovesValue ==
    [][/\ (pc = "for" /\ Len(receipts') = Len(receipts) + 1
           /\ transactions[Len(receipts) + 1].to # CreateAction
           /\ transactions[Len(receipts) + 1].gas_price = 0) =>
             LET t == transactions[Len(receipts) + 1]
             IN \A x \in Address :
                   /\ state'[x].balance =
                         state[x].balance - (IF x = t.caller THEN t.value ELSE 0)
                                          + (IF x = t.to THEN t.value ELSE 0)
                   /\ state'[x].nonce =
                         state[x].nonce + (IF x = t.caller THEN 1 ELSE 0)
                   /\ x \notin {t.caller, t.to} => state'[x] = state[x]
       /\ block_height(miner_state') > block_height(miner_state) =>
             /\ state_of(current_block_of(miner_state').header.state_root) = state
             /\ \A x \in Address :
                   balance(miner_state', x, Some("latest"))
                      = Reply("Ok", Some(state[x].balance))]_vars

C23_Witness ==
    /\ block_height(miner_state) >= 1
    /\ \E t \in Range(get_block_by_number(miner_state, 1).transactions) :
          /\ t.value = 1
          /\ t.to \notin {CreateAction, t.caller}
          /\ Len(get_block_by_number(miner_state, 1).transactions) = 1
          /\ account_at(miner_state, t.to, 1).balance
                = account_at(miner_state, t.to, 0).balance + 1
          /\ account_at(miner_state, t.caller, 1).balance
                = account_at(miner_state, t.caller, 0).balance - 1
          /\ account_at(miner_state, t.caller, 1).nonce = 1

\* C24: a storage slot that a mined transaction wrote with a non-zero value
\* reads back with that value, both through eth_getStorageAt at "latest"
\* and through the answer the miner gives a later transaction that requires
\* the slot.
C24_StorageReadsBack ==
    \A a \in Address, i \in Slots :
        LET account == account_at(miner_state, a, block_height(miner_state))
            trie == state_of(current_block_of(miner_state).header.state_root)
        IN (/\ account.exists
            /\ to_big_endian(i) \in DOMAIN account.storage
            /\ account.storage[to_big_endian(i)] # to_big_endian(0)) =>
              LET written == account.storage[to_big_endian(i)][2]
              IN /\ storage_at(miner_state, a, i, Some("latest"))
                       = Reply("Ok", Some(written))
                 /\ require_account_storage(trie, a, i)
                       = [kind |-> "Storage", value |-> written]

\* The block with number n has no transaction and used no gas.
EmptyBlock(n) ==
    /\ get_block_by_number(miner_state, n).transactions = <<>>
    /\ get_block_by_number(miner_state, n).header.gas_used = 0

\* The miner is to append an empty block above height h: a block above h
\* without transactions and with gas_used 0 exists.
EmptyBlockAbove(h) ==
    \E n \in (h + 1)..block_height(miner_state) : EmptyBlock(n)

\* The heights from which the model lets the miner reach an empty block: the
\* round that holds drained transactions appends a block with them first.
RoomForEmptyBlock(h) ==
    h + (IF transactions = <<>> THEN 1 ELSE 2) <= MaxHeight

\* C25: from every state in which the pending queue is empty, unless a
\* further submission is accepted the miner eventually appends a block
\* without transactions and with gas_used 0: it needs no wake to do so.
C25_KeepsMining ==
    \A h \in 0..(MaxHeight - 1), k \in 0..MaxSubmit :
        (/\ block_height(miner_state) = h
         /\ RoomForEmptyBlock(h)
         /\ Len(miner_state.all_pending_transaction_hashes) = k
         /\ miner_state.pending_transaction_hashes = <<>>)
        ~> (\/ Len(miner_state.all_pending_transaction_hashes) > k
            \/ EmptyBlockAbove(h))

\* The same from the states in which the miner thread has not panicked.
C25_KeepsMiningWhileAlive ==
    \A h \in 0..(MaxHeight - 1), k \in 0..MaxSubmit :
        (/\ block_height(miner_state) = h
         /\ RoomForEmptyBlock(h)
         /\ Len(miner_state.all_pending_transaction_hashes) = k
         /\ miner_state.pending_transaction_hashes = <<>>
         /\ pc # "panicked")
        ~> (\/ Len(miner_state.all_pending_transaction_hashes) > k
            \/ EmptyBlockAbove(h)
            \/ pc = "panicked")

\* C30: when the miner leaves its wait while wakes are on the channel, it
\* leaves it by receiving them, all at once: the channel is empty as the
\* next round starts, and the round is not one that the end of the
\* ten-second timeout started.
C30_WakeStartsRound ==
    [][(pc = "sleep" /\ pc' = "loop" /\ channel > 0) => channel' = 0]_vars

C27_ChangesAreTheAppended ==
    /\ filter.kind = "Block" =>
          polled.got = SubSeq(miner_state.block_hashes, polled.since + 2, polled.at + 1)
    /\ filter.kind = "PendingTransaction" =>
          polled.got = SubSeq(miner_state.all_pending_transaction_hashes,
                              polled.since + 1, polled.at)

\* Calls in different rounds returned one block hash each, with a
\* submission accepted in between.
C27_Witness ==
    /\ filter.kind = "Block"
    /\ polled.since = 0
    /\ polled.at = 2
    /\ Len(polled.got) = 2
    /\ get_block_by_number(miner_state, 2).transactions # <<>>

\* The log filters eth_newFilter and eth_getLogs are asked with: with and
\* without address, with no topics, fewer than four, null entries, a single
\* hash, a list of hashes, and four entries.
RPCLogQueries ==
    [from_block : {Some("earliest"), Some("0x1")}, to_block : {None},
     address : {None, Some("0x2"), Some("0x3")},
     topics : {None, Some(<<>>), Some(<<None>>), Some(<<Some(RPCSingle("0xb"))>>),
               Some(<<None, Some(RPCOr(<<"0xb", "0xc">>))>>),
               Some(<<Some(RPCOr(<<"0xc", "0xb">>)), Some(RPCSingle("0xc"))>>),
               Some(<<Some(RPCSingle("0xb")), None, None, Some(RPCSingle("0xc"))>>)}]

\* The logs of the range of the filter as the blocks commit to them: the
\* matching logs of the receipts under each block's receipts root.
RECURSIVE CommittedLogs(_, _, _)
CommittedLogs(f, from, to) ==
    IF from > to \/ from > block_height(miner_state) THEN <<>>
    ELSE MatchingLogs(get_block_by_number(miner_state, from).header.receipts_root, from, f)
            \o CommittedLogs(f, from + 1, to)

TopicEntry(rpc, i) ==
    IF rpc.topics = None \/ Len(rpc.topics[1]) < i THEN None ELSE rpc.topics[1][i]

\* The logs of the receipts the miner holds and of the blocks.
StateLogs ==
    UNION {Range(receipts[i].logs) : i \in 1..Len(receipts)}
    \cup UNION {UNION {Range(Blocks[b].header.receipts_root[i].logs) :
                          i \in 1..Len(Blocks[b].header.receipts_root)} : b \in DOMAIN Blocks}

\* The log matches the request, read off the request itself.
MatchesRequest(log, rpc) ==
    /\ rpc.address = None \/ HexAddress[rpc.address[1]] = log.address
    /\ \A i \in 1..4 :
          \/ TopicEntry(rpc, i) = None
          \/ /\ i <= Len(log.topics)
             /\ \E j \in 1..Len(TopicEntry(rpc, i)[1].strs) :
                   HexH256[TopicEntry(rpc, i)[1].strs[j]] = log.topics[i]

\* C29: a request with fewer than four topic entries, or a null entry, is
\* converted to All at that position, and a single topic string to the
\* disjunction of that one hash; and a log matches the converted filter iff
\* the address is absent or equal and at each of the four positions the
\* entry is All or the log's topic there is one of the listed hashes.
C29_TopicMatching ==
    \A rpc \in RPCLogQueries :
        LET f == from_log_filter(miner_state, rpc)
        IN f.err = "Ok" =>
              /\ \A i \in 1..4 :
                    /\ TopicEntry(rpc, i) = None => f.value[1].topics[i] = TopicAll
                    /\ (TopicEntry(rpc, i) # None /\ TopicEntry(rpc, i)[1].single) =>
                          f.value[1].topics[i]
                             = TopicOr(<<HexH256[TopicEntry(rpc, i)[1].strs[1]]>>)
              /\ \A log \in StateLogs : check_log(log, f.value[1]) <=> MatchesRequest(log, rpc)

\* A mined log with one topic, a request it matches through a single hash
\* and a request with four entries it does not match.
C29_Witness ==
    /\ block_height(miner_state) = 1
    /\ \E log \in StateLogs, yes, no \in RPCLogQueries :
          /\ Len(log.topics) = 1
          /\ yes.topics = Some(<<Some(RPCSingle("0xb"))>>)
          /\ no.topics = Some(<<Some(RPCSingle("0xb")), None, None, Some(RPCSingle("0xc"))>>)
          /\ from_log_filter(miner_state, yes).err = "Ok"
          /\ from_log_filter(miner_state, no).err = "Ok"
          /\ check_log(log, from_log_filter(miner_state, yes).value[1])
          /\ ~check_log(log, from_log_filter(miner_state, no).value[1])
          /\ no.address = None

\* ------------------------------------------------------------ mining mode
\* The modes --minemode selects in main; mine_loop has no parameter that
\* receives the choice.
MineMode == {"AllPending", "OnePerBlock"}

\* What is in the pending queue as a round drains it.
PendingTransactions == clear_pending_transactions(miner_state)

\* C31: whatever the mining mode, the step that drains the queue takes, in
\* OnePerBlock mode, at most one pending transaction (the oldest) and leaves
\* the others in the pending queue in their order, and in AllPending mode
\* every pending transaction.
C31_ModeBoundsRound ==
    [][\A mine_mode \in MineMode :
          (pc = "loop" /\ pc' = "for") =>
             IF mine_mode = "OnePerBlock"
             THEN /\ Len(transactions') <= 1
                  /\ transactions' = SubSeq(PendingTransactions, 1, Len(transactions'))
                  /\ PendingTransactions # <<>> =>
                        miner_state'.pending_transaction_hashes
                           = Tail(miner_state.pending_transaction_hashes)
             ELSE transactions' = PendingTransactions]_vars

\* The AllPending half alone: the round drains every pending transaction,
\* and a round that reaches its end appends a block with exactly the
\* drained transactions, in their order.
C31_AllPendingDrained ==
    [][/\ (pc = "loop" /\ pc' = "for") =>
             /\ transactions' = PendingTransactions
             /\ miner_state'.pending_transaction_hashes = <<>>
       /\ (pc = "for" /\ pc' = "sleep") =>
             current_block_of(miner_state').transactions = transactions]_vars

\* --------------------------------------------------- require/commit loop
\* What the VM can require of the miner about the accounts: an account, its
\* code, or one of its storage slots.
Requires ==
    [kind : {"Account", "AccountCode"}, address : Address, index : {0}]
    \cup [kind : {"AccountStorage"}, address : Address, index : Slots]

\* The arms of the loop for RequireError::Account, AccountCode and
\* AccountStorage: the AccountCommitment handed to the VM.
commit_account(trie, r) ==
    LET account == trie[r.address]
        none == [address |-> r.address, nonce |-> 0, balance |-> 0, code |-> "",
                 index |-> 0, value |-> 0]
    IN IF ~account.exists THEN none @@ [kind |-> "Nonexist"]
       ELSE CASE r.kind = "Account" ->
                    [none EXCEPT !.nonce = account.nonce, !.balance = account.balance,
                                 !.code = account.code] @@ [kind |-> "Full"]
              [] r.kind = "AccountCode" ->
                    [none EXCEPT !.code = account.code] @@ [kind |-> "Code"]
              [] r.kind = "AccountStorage" ->
                    [none EXCEPT !.index = r.index,
                                 !.value = require_account_storage(trie, r.address,
                                                                   r.index).value]
                       @@ [kind |-> "Storage"]

\* The loop around vm.fire(): the VM is the sequence of requirements it
\* raises before it returns Ok; each turn commits the answer to the head
\* requirement and fires again.  The result is the sequence of commitments
\* made when the VM returned Ok.
RECURSIVE require_loop(_, _, _)
require_loop(trie, fire, commits) ==
    IF fire = <<>> THEN commits
    ELSE require_loop(trie, Tail(fire), Append(commits, commit_account(trie, Head(fire))))

\* The runs of a VM that never requires an item twice, up to two
\* requirements long.
Fires ==
    {<<>>} \cup {<<r>> : r \in Requires}
           \cup {f \in Requires \X Requires : f[1] # f[2]}

\* The value the transactions mined so far stored in a slot: what the last
\* write left there, zero when nothing was written.
StoredValue(trie, address, index) ==
    IF trie[address].exists /\ to_big_endian(index) \in DOMAIN trie[address].storage
    THEN trie[address].storage[to_big_endian(index)][2]
    ELSE 0

\* The commitment the requirement r asks for on the trie.
Answers(c, trie, r) ==
    /\ c.address = r.address
    /\ IF ~trie[r.address].exists THEN c.kind = "Nonexist"
       ELSE CASE r.kind = "Account" ->
                    /\ c.kind = "Full"
                    /\ c.nonce = trie[r.address].nonce
                    /\ c.balance = trie[r.address].balance
                    /\ c.code = trie[r.address].code
              [] r.kind = "AccountCode" ->
                    c.kind = "Code" /\ c.code = trie[r.address].code
              [] r.kind = "AccountStorage" ->
                    /\ c.kind = "Storage"
                    /\ c.index = r.index
                    /\ c.value = StoredValue(trie, r.address, r.index)

\* The trie a round works on: the working trie of the round in progress,
\* and between rounds the state of the current block, which the next round
\* starts from.
WorkingTries ==
    IF pc = "for" THEN {state}
    ELSE {state_of(current_block_of(miner_state).header.state_root)}

\* C32: on every trie a round works on and for every run of the VM that
\* never requires an item twice, the loop ends, and when it ends it has
\* made exactly one commitment per requirement, in the order raised, each
\* for the required address (and slot): Full with the nonce, balance and
\* code of an existing account, Nonexist for an absent one, and for a slot
\* the value stored in it, zero when unset.
C32_EveryRequireAnswered ==
    \A trie \in WorkingTries, fire \in Fires :
        LET commits == require_loop(trie, fire, <<>>)
        IN /\ Len(commits) = Len(fire)
           /\ \A i \in 1..Len(fire) : Answers(commits[i], trie, fire[i])

\* The same for the runs that require no storage slot of an account that
\* holds one.
C32_AccountsAnswered ==
    \A trie \in WorkingTries, fire \in Fires :
        (\A i \in 1..Len(fire) :
            fire[i].kind = "AccountStorage" => trie[fire[i].address].storage = EmptyStorage) =>
           LET commits == require_loop(trie, fire, <<>>)
           IN /\ Len(commits) = Len(fire)
              /\ \A i \in 1..Len(fire) : Answers(commits[i], trie, fire[i])

\* transit, RequireError::Blockhash(number): the block is looked up by its
\* number in block_hashes, which panics past the end, and its header hash
\* is committed.
commit_blockhash(self, number) ==
    IF number > block_height(self) THEN Reply("Panic", None)
    ELSE Reply("Ok", Some(HeaderHash(get_block_by_number(self, number).header)))

\* The block numbers a VM may ask the hash of: every appended block, the
\* block being built and the one after it.
BlockhashNumbers == 0..(MaxHeight + 1)

\* C33: while a round builds block height + 1, a Blockhash(n) requirement
\* is answered without failure, by the header hash of block n when n is one
\* of the 256 blocks before the block being built, by zero for every other
\* n.
C33_BlockhashCommitted ==
    pc = "for" =>
       \A n \in BlockhashNumbers :
          LET building == block_height(miner_state) + 1
          IN commit_blockhash(miner_state, n)
                = Reply("Ok", Some(IF n < building /\ building - n <= 256
                                   THEN miner_state.block_hashes[n + 1]
                                   ELSE ZeroHash))

\* The same for the numbers of the blocks appended so far.
C33_AppendedBlockhashCommitted ==
    pc = "for" =>
       \A n \in 0..block_height(miner_state) :
          commit_blockhash(miner_state, n)
             = Reply("Ok", Some(miner_state.block_hashes[n + 1]))

\* ------------------------------------------------------- last 256 hashes
\* The longest chain of the idle node: enough blocks for the window of 256
\* to be shorter than the chain.
MaxChain == 258

\* MinerState::get_last_256_block_hashes_by_number with one pop more.
get_last_256_block_hashes_by_number_257(self, number) ==
    IF number > Len(self.block_hashes) THEN Reply("Panic", None)
    ELSE LET count == IF number < 257 THEN number ELSE 257
         IN Reply("Ok", Some([i \in 1..count |-> self.block_hashes[number + 1 - i]]))

\* MinerState::get_last_256_block_hashes_by_number: the slice
\* block_hashes[0..number] (which panics when number exceeds the length),
\* popped from its end up to 256 times.
get_last_256_block_hashes_by_number(self, number) ==
    IF number > Len(self.block_hashes) THEN Reply("Panic", None)
    ELSE LET count == IF number < 256 THEN number ELSE 256
         IN Reply("Ok", Some([i \in 1..count |-> self.block_hashes[number + 1 - i]]))

\* A whole round of the idle node, on the MinerState: nothing is pending,
\* the for loop has no turn, next builds an empty block on the current one
\* and append_block stores it.
idle_round(self) ==
    append_block(self, next(current_block_of(self), <<>>, <<>>,
                            state_of(current_block_of(self).header.state_root)))

\* ... and as a step of the node, the ten-second sleep included.
mine_idle_round ==
    /\ pc = "loop"
    /\ miner_state.pending_transaction_hashes = <<>>
    /\ block_height(miner_state) < MaxChain
    /\ miner_state' = idle_round(miner_state)
    /\ rpc_result' = NoCall
    /\ UNCHANGED <<channel, pc, current_block, transactions, receipts, state, filter_vars>>

\* The MinerState of the idle node after 0, 1, 2, ... rounds.
RECURSIVE IdleChainsFrom(_)
IdleChainsFrom(chains) ==
    IF Len(chains) >= MaxChain THEN chains
    ELSE IdleChainsFrom(Append(chains, idle_round(chains[Len(chains)])))

\* The idle node, looked at after any number of rounds: no request has
\* arrived, round follows round.
InitChain ==
    /\ miner_state \in
          Range(IdleChainsFrom(<<MinerStateNew(Genesis, GenesisTrie, GenesisKeys)>>))
    /\ channel = 0
    /\ rpc_result = NoCall
    /\ pc = "loop"
    /\ current_block = Genesis
    /\ transactions = <<>>
    /\ receipts = <<>>
    /\ state = EmptyTrie
    /\ filter = FilterManagerNew
    /\ polled = NotPolled

SpecChain == InitChain /\ [][mine_idle_round]_vars

\* C34: for the number n = height + 1 of the next block, as for 0 and for
\* the number of the current block, get_last_256_block_hashes_by_number(n)
\* succeeds and returns the hashes of blocks n-1, n-2, ..., max(0, n-256) in
\* that order: min(n, 256) of them, none for n = 0, never the hash of
\* block n.
C34_Last256Descending ==
    \A n \in {0, block_height(miner_state), block_height(miner_state) + 1} :
        LET r == get_last_256_block_hashes_by_number(miner_state, n)
            len == IF n < 256 THEN n ELSE 256
        IN /\ r.err = "Ok"
           /\ Len(r.value[1]) = len
           /\ \A i \in 1..len :
                 r.value[1][i] = HeaderHash(get_block_by_number(miner_state, n - i).header)

\* A chain longer than the window: the hashes for the next block leave the
\* genesis block out.
C34_Witness ==
    /\ block_height(miner_state) = 257
    /\ Len(get_last_256_block_hashes_by_number(miner_state, 258).value[1]) = 256
    /\ get_last_256_block_hashes_by_number(miner_state, 258).value[1][256]
          = miner_state.block_hashes[3]

\* ------------------------------------------------- the changes of transit
\* vm::Account::Full for an existing account whose nonce, balance and code
\* the transaction left alone and whose slots it wrote as in `changing`.
FullChange(trie, address, changing) ==
    [kind |-> "Full", address |-> address, nonce |-> trie[address].nonce,
     balance |-> trie[address].balance, changing_storage |-> changing,
     storage |-> <<>>, code |-> trie[address].code, exists |-> TRUE]

\* The storage with the entry of slot `index` taken out.
WithoutSlot(storage, index) ==
    [k \in DOMAIN storage \ {to_big_endian(index)} |-> storage[k]]

\* C35: when transit applies a change of an existing account that writes
\* zero to a slot, the account's storage afterwards holds no entry for the
\* slot, and it is the storage (hence has the root) it would be had the slot
\* never been written.
C35_ZeroWriteRemoves ==
    \A trie \in WorkingTries, a \in Address, i \in Slots :
        trie[a].exists =>
           LET after == ApplyChange(trie, FullChange(trie, a, i :> 0))
           IN /\ to_big_endian(i) \notin DOMAIN after[a].storage
              /\ after[a].storage = WithoutSlot(trie[a].storage, i)

\* A write of a value other than zero is stored under the slot's key.
C35_NonZeroWriteStored ==
    \A trie \in WorkingTries, a \in Address, i \in Slots :
        trie[a].exists =>
           LET after == ApplyChange(trie, FullChange(trie, a, i :> 7))
           IN /\ after[a].storage[to_big_endian(i)] = to_big_endian(7)
              /\ WithoutSlot(after[a].storage, i) = WithoutSlot(trie[a].storage, i)

\* vm::Account::IncreaseBalance(address, value) or DecreaseBalance(address,
\* value) as transit receives it.
BalanceChange(kind, address, value) ==
    [kind |-> kind, address |-> address, nonce |-> 0, balance |-> value,
     changing_storage |-> <<>>, storage |-> <<>>, code |-> "", exists |-> TRUE]

\* The amounts a change adds or takes: up to more than any balance here.
Amounts == 0..3

\* C36: on every trie a round works on, for every existing account and
\* amount v, IncreaseBalance writes exactly old + v and DecreaseBalance
\* exactly old - v as the account's balance, never a negative, wrapped or
\* capped one, and changes nothing else; a DecreaseBalance with v above the
\* balance aborts and writes nothing.
C36_BalanceArithmetic ==
    \A trie \in WorkingTries, a \in Address, v \in Amounts :
        trie[a].exists =>
           LET old == trie[a].balance
               inc == balance_change(trie, BalanceChange("IncreaseBalance", a, v))
               dec == balance_change(trie, BalanceChange("DecreaseBalance", a, v))
           IN /\ inc.err = "Ok"
              /\ inc.value[1][a].balance = old + v
              /\ inc.value[1][a].balance >= old
              /\ [inc.value[1] EXCEPT ![a].balance = old] = trie
              /\ IF v > old
                 THEN dec = Reply("Panic", None)
                 ELSE /\ dec.err = "Ok"
                      /\ dec.value[1][a].balance = old - v
                      /\ dec.value[1][a].balance + v = old
                      /\ [dec.value[1] EXCEPT ![a].balance = old] = trie

\* A round is working on a trie in which an account that received a
\* transfer holds 2: taking 3 from it aborts, taking 2 leaves 0.
C36_Witness ==
    /\ pc = "for"
    /\ state[2].exists
    /\ state[2].balance = 2
    /\ balance_change(state, BalanceChange("DecreaseBalance", 2, 3)).err = "Panic"
    /\ balance_change(state, BalanceChange("DecreaseBalance", 2, 2)).err = "Ok"
    /\ balance_change(state, BalanceChange("DecreaseBalance", 2, 2)).value[1][2].balance = 0

\* vm::Account::Create as transit can receive it for an address: removed or
\* created, with some slots written or none.
Creates(address) ==
    [kind : {"Create"}, address : {address}, nonce : {1}, balance : {2},
     changing_storage : {<<>>}, storage : {<<>>, 1 :> 5, (0 :> 7) @@ (1 :> 0)},
     code : {"INCR"}, exists : BOOLEAN]

RECURSIVE replay_prior(_, _, _)
replay_prior(trie, others, transaction) ==
    IF others = <<>> \/ Head(others) = transaction THEN Reply("Ok", Some(trie))
    ELSE IF from_transaction(transaction, trie) # "Ok" THEN Reply("CallError", None)
    ELSE replay_prior(transit(trie, transaction).state, Tail(others), transaction)

\* replay_transaction: the transaction is validated against the Stateful
\* and stepped on it by a tracing VM; the trie it is stepped on is kept in
\* the result.
replay_transaction(trie, transaction) ==
    IF from_transaction(transaction, trie) # "Ok" THEN Reply("CallError", None)
    ELSE Reply("Ok", Some([pre_state |-> trie, gas |-> real_used_gas(transaction, trie)]))

\* debug_traceTransaction: the transaction and its block are looked up by
\* hash, a Stateful is opened at the state root of the block before, the
\* loop over the block's transactions runs, and the transaction is replayed.
trace_transaction(self, hash) ==
    IF hash \notin DOMAIN self.transaction_database THEN Reply("NotFound", None)
    ELSE IF hash \notin DOMAIN self.transaction_block_hashes THEN Reply("NotFound", None)
    ELSE LET transaction == self.transaction_database[hash]
             block == self.block_database[self.transaction_block_hashes[hash]]
             last_block == get_block_by_number(self, IF block.header.number = 0 THEN 0
                                                     ELSE block.header.number - 1)
             stateful == replay_prior(state_of(last_block.header.state_root),
                                      block.transactions, transaction)
         IN IF stateful.err # "Ok" THEN stateful
            ELSE replay_transaction(stateful.value[1], transaction)

\* C38: for every appended block b and every index i in it,
\* debug_traceTransaction of the transaction there succeeds and steps it on
\* the state after b's transactions 0..i-1: the state root of receipt i-1,
\* or the state root of b's parent when i = 0.
C38_TraceReplaysPrior ==
    \A n \in 1..block_height(miner_state) :
        LET block == get_block_by_number(miner_state, n)
            parent == get_block_by_number(miner_state, n - 1)
        IN \A i \in 1..Len(block.transactions) :
              LET r == trace_transaction(miner_state, TransactionHash(block.transactions[i]))
              IN /\ r.err = "Ok"
                 /\ r.value[1].pre_state
                       = IF i = 1 THEN state_of(parent.header.state_root)
                         ELSE state_of(block.header.receipts_root[i - 1].state_root)

\* The same for the first transaction of every block.
C38_FirstTraced ==
    \A n \in 1..block_height(miner_state) :
        LET block == get_block_by_number(miner_state, n)
            parent == get_block_by_number(miner_state, n - 1)
        IN block.transactions # <<>> =>
              trace_transaction(miner_state, TransactionHash(block.transactions[1]))
                 = Reply("Ok", Some([pre_state |-> state_of(parent.header.state_root),
                                     gas |-> block.header.receipts_root[1].used_gas]))

\* ------------------------------------------------------- the default nonce
\* The pending transactions of a sender, by their place in the queue.
PendingFrom(address) ==
    {i \in 1..Len(miner_state.pending_transaction_hashes) :
        miner_state.transaction_database[miner_state.pending_transaction_hashes[i]].caller
           = address}

\* C39: in every state, whatever is pending, the transaction that
\* eth_sendTransaction builds from a request without a nonce carries the
\* nonce the sender has in the state of the latest appended block.
C39_NonceFromLatestBlock ==
    \A rpc \in RPCTransactions :
        LET signed == to_signed_transaction(miner_state, rpc)
        IN (rpc.nonce = None /\ signed.err = "Ok") =>
              signed.value[1].nonce
                 = account_at(miner_state, signed.value[1].caller,
                              block_height(miner_state)).nonce

\* Two different transactions of one sender are pending with the same
\* nonce, and a further request without a nonce gets that nonce again.
C39_Witness ==
    \E rpc \in RPCTransactions :
        LET signed == to_signed_transaction(miner_state, rpc)
        IN /\ rpc.nonce = None
           /\ signed.err = "Ok"
           /\ \E i, j \in PendingFrom(signed.value[1].caller) :
                 /\ i # j
                 /\ miner_state.pending_transaction_hashes[i]
                       # miner_state.pending_transaction_hashes[j]
                 /\ miner_state.transaction_database[
                       miner_state.pending_transaction_hashes[i]].nonce = signed.value[1].nonce
                 /\ miner_state.transaction_database[
                       miner_state.pending_transaction_hashes[j]].nonce = signed.value[1].nonce

\* ---------------------------------------------------------- chain indices
\* The sum of the difficulties of blocks 0..n.
RECURSIVE SumDifficulty(_)
SumDifficulty(n) ==
    get_block_by_number(miner_state, n).header.difficulty
       + (IF n = 0 THEN 0 ELSE SumDifficulty(n - 1))

\* C40: in every state block_hashes has no hash twice, every hash in it has
\* an entry in the block database and in the total-header database, the
\* block found by number n carries number n for every n up to the height,
\* current_block is the last entry of block_hashes, and the total difficulty
\* recorded for block n is the sum of the difficulties of blocks 0..n.
C40_ChainIndicesConsistent ==
    LET hashes == miner_state.block_hashes
    IN /\ \A i, j \in 1..Len(hashes) : i # j => hashes[i] # hashes[j]
       /\ \A i \in 1..Len(hashes) :
             /\ hashes[i] \in DOMAIN miner_state.block_database
             /\ hashes[i] \in DOMAIN miner_state.total_header_database
       /\ miner_state.current_block = hashes[Len(hashes)]
       /\ \A n \in 0..block_height(miner_state) :
             /\ get_block_by_number(miner_state, n).header.number = n
             /\ miner_state.total_header_database[hashes[n + 1]].header
                   = get_block_by_number(miner_state, n).header
             /\ miner_state.total_header_database[hashes[n + 1]].total_difficulty
                   = SumDifficulty(n)

\* Two blocks have been appended to the genesis block, the first with two
\* transactions and the second with none.
C40_Witness ==
    /\ block_height(miner_state) = 2
    /\ Len(get_block_by_number(miner_state, 1).transactions) = 2
    /\ get_block_by_number(miner_state, 2).transactions = <<>>
    /\ miner_state.current_block = miner_state.block_hashes[3]
    /\ Cardinality(DOMAIN miner_state.block_database) = 3

====
